---- MODULE Spec2Model ----
(***************************************************************************)
(* A model of the go-archiver core: the store and its readers, the         *)
(* transaction validator, the per-tick validation and indexing pipeline,   *)
(* the startup migrations and the query facade.                            *)
(*                                                                         *)
(* The specifications share the variables:                                 *)
(*   SpecPage      a client following the cursors of                       *)
(*                 PebbleStore.GetIdetityAssetTransactionsFromEnd          *)
(*   SpecTx        tx.Validate applied to a tick body and a transaction    *)
(*                 list                                                    *)
(*   Spec          Validator.ValidateTick run tick after tick, with        *)
(*                 readers                                                 *)
(*   SpecStore     tx.Store of models.go on the transactions of a tick     *)
(*   SpecStoreQx   tx.Store of validator.go on the same transactions       *)
(*   SpecReplay    tx.Store and SetLastProcessedTick made twice            *)
(*   SpecOrder     tx.Validate followed by tx.Store                        *)
(*   SpecDecode    the decoding of the input of an asset transfer          *)
(*   SpecIntervals the processed-tick intervals of an epoch                *)
(*   SpecLpt       SetLastProcessedTick followed by GetLastProcessedTick   *)
(*   SpecMig       PerformMigrations, startup after startup                *)
(*   SpecAtm       AssetTransferMigration, run after run                   *)
(*   SpecRpc       one request to the query facade                         *)
(*   SpecValidate  Validator.ValidateTick on the votes of a tick           *)
(*   SpecAccess    one call of a read accessor of the store                *)
(***************************************************************************)
EXTENDS Integers, Sequences, FiniteSets, TLC

VARIABLES
    aidx,      \* SpecPage: QxIdentityAssetTransfers|identity|assetId|tick -> moneyFlew flags of the listed ids, in insertion order
    plpt,      \* SpecPage: LastProcessedTick.TickNumber of the store that is read
    q,         \* SpecPage: the client's fixed query parameters
    cur,       \* SpecPage: the cursor the client will send next
    got,       \* SpecPage: concatenation of the pages received so far
    last,      \* SpecPage: the last call made and what it returned
    calls,     \* SpecPage: number of calls made
    tvIn,      \* SpecTx: the tick body's digest slots and the transactions the node returned
    tvOut,     \* SpecTx: what tx.Validate returned
    decIn,     \* SpecDecode: the input bytes of an asset-transfer transaction
    decOut,    \* SpecDecode: what UnmarshalBinary and GetAssetTransfer returned
    lptKv,     \* SpecLpt: the argument of SetLastProcessedTick, the bytes under the keys it writes, and what GetLastProcessedTick returned
    rpc,       \* SpecRpc: a request to the query facade, what the store holds for it, and the status returned
    atm,       \* SpecAtm: the position of AssetTransferMigration over the store db
    vt,        \* SpecValidate: the votes, the context and the computors of ValidateTick, and the writes it made
    acc,       \* SpecAccess: a read accessor of the store, what the engine answered, and the error returned
    mig,       \* SpecMig: the migration version key, the data the migrations touch, and the position of PerformMigrations
    db,        \* Spec: the content of the key-value store
    pc,        \* Spec: where the pipeline stands in ValidateTick
    run,       \* Spec: the local variables of the current run of ValidateTick
    proc,      \* Spec: the outer loop (next tick, ticks reported processed, ticks skipped) and what the node serves for the next tick
    obs        \* Spec: what the last reader saw of the records of the tick being indexed

pageVars == <<aidx, plpt, q, cur, got, last, calls>>

decVars == <<decIn, decOut>>

apiVars == <<lptKv, mig, atm, rpc, vt, acc>>

txVars == <<tvIn, tvOut, decIn, decOut, lptKv, mig, atm, rpc, vt, acc>>

pipeVars == <<db, pc, run, proc, obs>>

vars == <<aidx, plpt, q, cur, got, last, calls, tvIn, tvOut, decIn, decOut, lptKv, mig, atm, rpc, vt, acc, db, pc, run, proc, obs>>

----------------------------------------------------------------------------
(* Bounds of the model *)

MaxTick == 2
MaxPerTick == 2
MaxLimit == 2
MaxCalls == 2
NumSlots == 2
MaxTxs == 2
NumTicks == 2
\* tick numbers are uint32 in the program; the model keeps the wrap-around of
\* endTick+1 with unsigned integers of TickBits bits
TickBits == 3

(* Program constants *)

DefaultMaxTransactions == 1000
MaxUintTick == 2^TickBits - 1

----------------------------------------------------------------------------
(* Helpers *)

Max(S) == CHOOSE x \in S : \A y \in S : y <= x

Reverse(s) == [i \in 1..Len(s) |-> s[Len(s) + 1 - i]]

SeqsUpTo(S, n) == UNION {[1..k -> S] : k \in 0..n}

----------------------------------------------------------------------------
(* PebbleStore.GetIdetityAssetTransactionsFromEnd                           *)

\* (mutant) the endTick == 0 default is forgotten
EffectiveEndTickNoDefault(endTick, lpt) == endTick

\* endTick == 0 is replaced by the last processed tick
EffectiveEndTick(endTick, lpt) == IF endTick = 0 THEN lpt ELSE endTick

\* maxTransactions == 0 is replaced by 1000
EffectiveMax(maxTransactions) ==
    IF maxTransactions = 0 THEN DefaultMaxTransactions ELSE maxTransactions

\* the tick of the exclusive upper bound key: endTick+1 in unsigned arithmetic
UpperBoundTick(endTick) == (endTick + 1) % (MaxUintTick + 1)

\* the ticks of the keys the iterator ranges over: LowerBound tick 0,
\* UpperBound exclusive; a key exists only for a non-empty list
KeysInRange(index, endTick) ==
    {t \in DOMAIN index : index[t] # <<>> /\ 0 <= t /\ t < UpperBoundTick(endTick)}

\* the entries of the key of tick t, in stored (insertion) order
Entries(index, t) ==
    [k \in 1..Len(index[t]) |-> [tick |-> t, pos |-> k, moneyFlew |-> index[t][k]]]

\* "Filter says we only want valid transfers"
SkipTx(includeFailed, moneyFlew) == ~includeFailed /\ ~moneyFlew

\* (mutant) the page is found full one transaction late
LimitReachedLate(n, maxTransactions) == n > maxTransactions

\* the page is full
LimitReached(n, maxTransactions) == n >= maxTransactions

\* the index the next page starts at when the page fills at index i of a list of length n
NextIndexOnLimit(i, n, nextTxnIndexStart) ==
    IF i < n - 1 THEN i + 1 ELSE nextTxnIndexStart

\* the inner loop: for i := txnIndexStart; i < len(perTick.Transactions); i++
RECURSIVE ScanTransactions(_, _, _, _, _)
ScanTransactions(rev, i, st, includeFailed, maxTransactions) ==
    IF i >= Len(rev) THEN st
    ELSE IF SkipTx(includeFailed, rev[i + 1].moneyFlew)
         THEN ScanTransactions(rev, i + 1, st, includeFailed, maxTransactions)
         ELSE LET txs == Append(st.transactions, rev[i + 1]) IN
              IF LimitReached(Len(txs), maxTransactions)
              THEN [st EXCEPT !.transactions = txs,
                              !.nextTxnIndexStart = NextIndexOnLimit(i, Len(rev), @),
                              !.returned = TRUE,
                              !.stopIndex = i]
              ELSE ScanTransactions(rev, i + 1, [st EXCEPT !.transactions = txs],
                                    includeFailed, maxTransactions)

\* "We fully processed the current tick so we can safely move to the next"
AfterTick(st) ==
    IF st.nextEndTick > 0
    THEN [st EXCEPT !.nextTxnIndexStart = 0, !.nextEndTick = @ - 1, !.firstTick = FALSE]
    ELSE [st EXCEPT !.firstTick = FALSE]

\* the outer loop: for ok := iter.Last(); ok; ok = iter.Prev()
RECURSIVE ScanTicks(_, _, _, _, _)
ScanTicks(index, keys, st, includeFailed, maxTransactions) ==
    IF keys = {} THEN st
    ELSE LET t    == Max(keys)
             rest == keys \ {t}
             n    == Len(index[t])
             st1  == [st EXCEPT !.nextEndTick = t, !.lastTick = t, !.lastLen = n,
                                !.visited = TRUE, !.skipped = FALSE]
         IN  IF st1.firstTick /\ st1.txnIndexStart >= n
             THEN ScanTicks(index, rest,
                            [st1 EXCEPT !.firstTick = FALSE, !.skipped = TRUE],
                            includeFailed, maxTransactions)
             ELSE LET from == IF ~st1.firstTick THEN 0 ELSE st1.txnIndexStart
                      st2  == ScanTransactions(Reverse(Entries(index, t)), from,
                                               [st1 EXCEPT !.txnIndexStart = from],
                                               includeFailed, maxTransactions)
                  IN  IF st2.returned THEN st2
                      ELSE ScanTicks(index, rest, AfterTick(st2),
                                     includeFailed, maxTransactions)

\* The result: transactions, nextEndTick, nextTxnIndexStart, lastProcessedTick.
\* lastTick, lastLen, stopIndex, visited, skipped and returned expose where the
\* loops stood when the function returned.
GetIdetityAssetTransactionsFromEnd(index, lpt, includeFailed, endTick, txnIndexStart, maxTransactions) ==
    LET e  == EffectiveEndTick(endTick, lpt)
        m  == EffectiveMax(maxTransactions)
        st == ScanTicks(index, KeysInRange(index, e),
                        [transactions |-> <<>>, firstTick |-> TRUE,
                         nextEndTick |-> 0, nextTxnIndexStart |-> 0,
                         txnIndexStart |-> txnIndexStart, returned |-> FALSE,
                         lastTick |-> 0, lastLen |-> 0, stopIndex |-> 0,
                         visited |-> FALSE, skipped |-> FALSE],
                        includeFailed, m)
    IN  [transactions |-> st.transactions,
         nextEndTick |-> st.nextEndTick,
         nextTxnIndexStart |-> st.nextTxnIndexStart,
         lastProcessedTick |-> lpt,
         lastTick |-> st.lastTick, lastLen |-> st.lastLen, stopIndex |-> st.stopIndex,
         visited |-> st.visited, skipped |-> st.skipped, returned |-> st.returned]

----------------------------------------------------------------------------
(* Transactions and digests                                                 *)

\* A transaction is its signed content (body) and its signature. The
\* signature either verifies under the source public key over the hash of the
\* content, or it does not.
\* The content of a transaction is one of two shapes: a native transfer
\* (inputType 0, amount > 0) and an asset-ownership transfer sent to the
\* exchange contract (inputType 2, amount 0); it carries its tick.
TxKinds == {"native", "asset"}

TxBodiesOf(tick) == [kind : TxKinds, tick : {tick}]

TxBodies == TxBodiesOf(1)

Signatures == {"valid", "forged"}

TransactionsOf(tick) == [body : TxBodiesOf(tick), sig : Signatures]

Transactions == TransactionsOf(1)

\* tx.MarshallBinary: the content followed by the 64-byte signature
MarshallBinary(tx) == <<tx.body, tx.sig>>

\* txDataBytes[:len(txDataBytes)-64]
WithoutSignature(bytes) == SubSeq(bytes, 1, Len(bytes) - 1)

\* utils.K12Hash, collision-free: the digest of a byte string stands for it
K12Hash(bytes) == [k12 |-> bytes]

emptyTxDigest == [k12 |-> <<>>]

\* the digests a tick body can list
Digests ==
    {emptyTxDigest}
        \cup {K12Hash(MarshallBinary(tx)) : tx \in Transactions}
        \cup {K12Hash(WithoutSignature(MarshallBinary(tx))) : tx \in Transactions}

\* (mutant) the digest looked up is the hash of the bytes without the signature
getDigestWithoutSignature(tx) == K12Hash(WithoutSignature(MarshallBinary(tx)))

\* getDigestFromTransaction: the hash of all the marshalled bytes
getDigestFromTransaction(tx) == K12Hash(MarshallBinary(tx))

\* (mutant) the verifier accepts every signature
SigVerifiesAlways(tx, constructedDigest) == TRUE

\* sigVerifierFunc(ctx, tx.SourcePublicKey, constructedDigest, tx.Signature)
SigVerifies(tx, constructedDigest) ==
    /\ tx.sig = "valid"
    /\ constructedDigest = K12Hash(<<tx.body>>)

----------------------------------------------------------------------------
(* tx.Validate                                                              *)

\* (mutant) the empty digest slots are not skipped
createTxDigestsMapKeepEmpty(transactionDigests) ==
    {transactionDigests[i] : i \in 1..Len(transactionDigests)}

\* the set of the non-empty digests of the tick body
createTxDigestsMap(transactionDigests) ==
    {transactionDigests[i] : i \in {j \in 1..Len(transactionDigests) :
                                        transactionDigests[j] # emptyTxDigest}}

\* the loop of validateTransactions from transaction i on; valid holds the
\* transactions validated so far
RECURSIVE validateFrom(_, _, _, _)
validateFrom(transactions, digestsMap, i, valid) ==
    IF i > Len(transactions) THEN [err |-> "nil", txs |-> valid]
    ELSE LET tx == transactions[i] IN
         IF getDigestFromTransaction(tx) \notin digestsMap
         THEN [err |-> "NotFoundInDigestsMap", txs |-> <<>>]
         ELSE IF ~SigVerifies(tx, K12Hash(WithoutSignature(MarshallBinary(tx))))
         THEN [err |-> "VerifyingTxSignature", txs |-> <<>>]
         ELSE validateFrom(transactions, digestsMap, i + 1, Append(valid, tx))

validateTransactions(transactions, digestsMap) ==
    validateFrom(transactions, digestsMap, 1, <<>>)

Validate(transactions, transactionDigests) ==
    LET digestsMap == createTxDigestsMap(transactionDigests) IN
    IF Cardinality(digestsMap) = 0 THEN [err |-> "nil", txs |-> <<>>]
    ELSE IF Len(transactions) # Cardinality(digestsMap)
    THEN [err |-> "TxCountMismatch", txs |-> <<>>]
    ELSE validateTransactions(transactions, digestsMap)

----------------------------------------------------------------------------
(* The fields of a transaction and the asset-transaction classifier         *)

SMART_CONTRACT_QX == "QX"
SMART_CONTRACT_QUTIL == "QUTIL"

\* texts are sequences of symbols, so that the asset id can be built by
\* concatenation as the program builds it
NATIVE_QUBIC_ASSET_ISSUER == <<"0">>
NATIVE_QUBIC_ASSET_NAME == <<"0">>

Identities == {"A", "B", "C", SMART_CONTRACT_QX, SMART_CONTRACT_QUTIL}

\* a byte string of n zero bytes
Zeros(n) == [i \in 1..n |-> 0]

\* the first byte of the public key of an identity; the other 31 are zero
IdentityByte(id) ==
    CASE id = SMART_CONTRACT_QX -> 1
      [] id = SMART_CONTRACT_QUTIL -> 4
      [] id = "A" -> 65
      [] id = "B" -> 66
      [] id = "C" -> 67
      [] id = "I" -> 73

PublicKey(id) == <<IdentityByte(id)>> \o Zeros(31)

\* the identities and the issuer of the model
KnownIdentities == Identities \cup {"I"}

\* Identity.FromPubKey(pubKey, false): the text of a 32-byte public key
FromPubKey(pubKey) ==
    IF \E id \in KnownIdentities : PublicKey(id) = pubKey
    THEN CHOOSE id \in KnownIdentities : PublicKey(id) = pubKey
    ELSE "?"

\* the value of a little-endian byte string
RECURSIVE LittleEndianUint(_)
LittleEndianUint(bytes) ==
    IF bytes = <<>> THEN 0 ELSE bytes[1] + 256 * LittleEndianUint(Tail(bytes))

\* the value of a little-endian two's complement byte string
LittleEndianInt(bytes) ==
    IF bytes[Len(bytes)] >= 128
    THEN -(LittleEndianUint([i \in 1..Len(bytes) |-> 255 - bytes[i]]) + 1)
    ELSE LittleEndianUint(bytes)

\* binary.Write(buffer, binary.LittleEndian, v) of a small int64
RECURSIVE PutLittleEndian(_, _)
PutLittleEndian(v, n) ==
    IF n = 0 THEN <<>> ELSE <<v % 256>> \o PutLittleEndian(v \div 256, n - 1)

\* the widths of the fields of QxTransferAssetOwnershipAndPossessionInput
IssuerSize == 32
NewOwnerAndPossessorSize == 32
AssetNameSize == 8
NumberOfUnitsSize == 8

\* QxTransferAssetOwnershipAndPossessionInput.MarshalBinary. AssetName, a
\* uint64, is held as its 8 little-endian bytes.
MarshalBinary(t) ==
    t.Issuer \o t.NewOwnerAndPossessor \o t.AssetName
        \o PutLittleEndian(t.NumberOfUnits, NumberOfUnitsSize)

\* binary.Read of n bytes at offset off of data: unexpected EOF when fewer
\* than n bytes are left
CanRead(data, off, n) == Len(data) >= off + n

ReadBytes(data, off, n) == SubSeq(data, off + 1, off + n)

\* QxTransferAssetOwnershipAndPossessionInput.UnmarshalBinary: the four
\* fields are read one after the other
UnmarshalBinary(data) ==
    LET o1 == IssuerSize
        o2 == o1 + NewOwnerAndPossessorSize
        o3 == o2 + AssetNameSize
        failed(at) == [err |-> at]
    IN  IF ~CanRead(data, 0, IssuerSize) THEN failed("reading issuer")
        ELSE IF ~CanRead(data, o1, NewOwnerAndPossessorSize)
        THEN failed("reading new owner and possessor")
        ELSE IF ~CanRead(data, o2, AssetNameSize) THEN failed("reading asset name")
        ELSE IF ~CanRead(data, o3, NumberOfUnitsSize) THEN failed("reading number of units")
        ELSE [err |-> "nil",
              Issuer |-> ReadBytes(data, 0, IssuerSize),
              NewOwnerAndPossessor |-> ReadBytes(data, o1, NewOwnerAndPossessorSize),
              AssetName |-> ReadBytes(data, o2, AssetNameSize),
              NumberOfUnits |-> LittleEndianInt(ReadBytes(data, o3, NumberOfUnitsSize))]

\* the zero bytes of the end of buf are removed
RECURSIVE TrimRightZeros(_)
TrimRightZeros(buf) ==
    IF buf # <<>> /\ buf[Len(buf)] = 0
    THEN TrimRightZeros(SubSeq(buf, 1, Len(buf) - 1)) ELSE buf

RECURSIVE TrimLeftZeros(_)
TrimLeftZeros(buf) ==
    IF buf # <<>> /\ buf[1] = 0 THEN TrimLeftZeros(Tail(buf)) ELSE buf

\* bytes.Trim(buf, "\x00"): the zero bytes of both ends are removed
TrimZeros(buf) == TrimRightZeros(TrimLeftZeros(buf))

\* string(buf): one symbol per byte
Chr(b) ==
    CASE b = 88 -> "X"
      [] b = 48 -> "0"
      [] b = 67 -> "C"
      [] b = 70 -> "F"
      [] b = 66 -> "B"
      [] b = 0 -> "NUL"
      [] OTHER -> ToString(b)

BytesToString(buf) == [i \in 1..Len(buf) |-> Chr(buf[i])]

\* Uint64ToString: the 8 little-endian bytes of value, trimmed
Uint64ToString(value) == BytesToString(TrimZeros(value))

\* GetAssetTransfer
GetAssetTransfer(input) ==
    [Issuer |-> FromPubKey(input.Issuer),
     DestId |-> FromPubKey(input.NewOwnerAndPossessor),
     AssetName |-> Uint64ToString(input.AssetName),
     Amount |-> input.NumberOfUnits]

\* the input of a transfer of 5 units of the asset X of issuer I to C
AssetInput ==
    MarshalBinary([Issuer |-> PublicKey("I"), NewOwnerAndPossessor |-> PublicKey("C"),
                   AssetName |-> <<88>> \o Zeros(7), NumberOfUnits |-> 5])

\* the same input with its last byte missing
ShortAssetInput == SubSeq(AssetInput, 1, Len(AssetInput) - 1)

\* the send-many payload of the model holds one transfer: the address of its
\* destination, then its amount
SendManyAddressSize == 32
SendManyAmountSize == 8

\* the input of a send-many of 7 to C
SendManyInput == PublicKey("C") \o PutLittleEndian(7, SendManyAmountSize)

ShortSendManyInput == SubSeq(SendManyInput, 1, Len(SendManyInput) - 1)

\* SendManyTransferPayload.UnmarshallBinary
SendManyUnmarshallBinary(data) ==
    IF ~CanRead(data, 0, SendManyAddressSize + SendManyAmountSize)
    THEN [err |-> "unmarshalling payload"]
    ELSE [err |-> "nil",
          addresses |-> <<ReadBytes(data, 0, SendManyAddressSize)>>,
          amounts |-> <<LittleEndianInt(ReadBytes(data, SendManyAddressSize, SendManyAmountSize))>>]

\* SendManyTransferPayload.GetTransfers: the transfers of the payload that
\* carry an amount
GetTransfers(sendManyPayload) ==
    LET all == [i \in 1..Len(sendManyPayload.addresses) |->
                   [DestId |-> FromPubKey(sendManyPayload.addresses[i]),
                    Amount |-> sendManyPayload.amounts[i]]]
    IN  SelectSeq(all, LAMBDA t : t.Amount # 0)

\* the decoded fields of a transaction. The two transactions of the pipeline
\* are a native transfer of 100 from A to B and a transfer of the asset X of
\* issuer I from A to C; every other transaction carries its own fields.
TxFields(tx) ==
    IF tx.body.kind = "native"
    THEN [SourceId |-> "A", DestId |-> "B", Amount |-> 100, InputType |-> 0,
          Input |-> <<>>]
    ELSE IF tx.body.kind = "asset"
    THEN [SourceId |-> "A", DestId |-> SMART_CONTRACT_QX, Amount |-> 0, InputType |-> 2,
          Input |-> AssetInput]
    ELSE [SourceId |-> tx.body.SourceId, DestId |-> tx.body.DestId,
          Amount |-> tx.body.Amount, InputType |-> tx.body.InputType,
          Input |-> tx.body.Input]

\* txID.FromPubKey(digest, true): the identity text of the full digest
TxId(tx) == [id |-> getDigestFromTransaction(tx)]

txToLeanTransaction(tx) ==
    LET f == TxFields(tx) IN
    [SourceId |-> f.SourceId, DestId |-> f.DestId, TxId |-> TxId(tx),
     InputType |-> f.InputType, Input |-> f.Input]

ErrNotValidTransaction == [err |-> "ErrNotValidTransaction"]

\* (mutant) a payload that fails to decode is an error of the whole batch
ErrDecodeFatal == [err |-> "parse asset transaction"]

\* the error ParseAssetTransaction returns for a payload that fails to decode
ErrUndecodable == ErrNotValidTransaction

ParseAssetTransaction(tx) ==
    LET transaction == txToLeanTransaction(tx) IN
    IF transaction.InputType = 0
    THEN [err |-> "nil", Transaction |-> transaction]
    ELSE IF transaction.DestId = SMART_CONTRACT_QUTIL
    THEN IF transaction.InputType = 1
         THEN LET sendManyPayload == SendManyUnmarshallBinary(transaction.Input) IN
              IF sendManyPayload.err # "nil" THEN ErrUndecodable
              ELSE [err |-> "nil", Transaction |-> transaction,
                    SendManyTransaction |->
                        [SourceId |-> transaction.SourceId,
                         Transfers |-> GetTransfers(sendManyPayload)]]
         ELSE ErrNotValidTransaction
    ELSE IF transaction.DestId = SMART_CONTRACT_QX
    THEN IF transaction.InputType = 2
         THEN LET input == UnmarshalBinary(transaction.Input) IN
              IF input.err # "nil" THEN ErrUndecodable
              ELSE [err |-> "nil", Transaction |-> transaction,
                    QxTransferAssetPayload |-> GetAssetTransfer(input)]
         ELSE ErrNotValidTransaction
    ELSE ErrNotValidTransaction

\* result = append(result, id) unless seen[id]
AppendUnseen(result, id) ==
    IF \E i \in 1..Len(result) : result[i] = id THEN result ELSE Append(result, id)

RECURSIVE AppendUnseenDests(_, _, _)
AppendUnseenDests(result, transfers, i) ==
    IF i > Len(transfers) THEN result
    ELSE AppendUnseenDests(AppendUnseen(result, transfers[i].DestId), transfers, i + 1)

\* (mutant) the source is the only participant
findSourceOnly(p) == <<p.Transaction.SourceId>>

findTransactionParticipants(p) ==
    LET t == p.Transaction IN
    IF t.InputType = 0
    THEN AppendUnseen(AppendUnseen(<<>>, t.SourceId), t.DestId)
    ELSE IF t.DestId = SMART_CONTRACT_QUTIL
    THEN IF t.InputType = 1
         THEN AppendUnseenDests(AppendUnseen(<<>>, p.SendManyTransaction.SourceId),
                                p.SendManyTransaction.Transfers, 1)
         ELSE <<>>
    ELSE IF t.DestId = SMART_CONTRACT_QX
    THEN IF t.InputType = 2
         THEN AppendUnseen(AppendUnseen(<<>>, t.SourceId), p.QxTransferAssetPayload.DestId)
         ELSE <<>>
    ELSE <<>>

\* Issuer.String() is the text of the identity: a text of one symbol here
findTransactionCurrency(p) ==
    LET t == p.Transaction IN
    IF t.InputType = 0 \/ (t.DestId = SMART_CONTRACT_QUTIL /\ t.InputType = 1)
    THEN [err |-> "nil", AssetIssuer |-> NATIVE_QUBIC_ASSET_ISSUER,
          AssetName |-> NATIVE_QUBIC_ASSET_NAME]
    ELSE IF t.DestId = SMART_CONTRACT_QX /\ t.InputType = 2
    THEN [err |-> "nil", AssetIssuer |-> <<p.QxTransferAssetPayload.Issuer>>,
          AssetName |-> p.QxTransferAssetPayload.AssetName]
    ELSE [err |-> "ErrNotValidTransaction", AssetIssuer |-> <<>>, AssetName |-> <<>>]

\* called on the transactions ParseAssetTransaction accepted
FindTransactionIdParticipantsAndCurrency(p) ==
    LET currency == findTransactionCurrency(p) IN
    [err |-> currency.err, TxId |-> p.Transaction.TxId,
     Currency |-> currency, Identities |-> findTransactionParticipants(p)]

\* the asset ids of the model: the native currency and the asset X of issuer I
AssetIds == {NATIVE_QUBIC_ASSET_ISSUER \o NATIVE_QUBIC_ASSET_NAME, <<"I">> \o <<"X">>}

----------------------------------------------------------------------------
(* tx.Store: what is derived from the valid transactions of a tick          *)

Range(s) == {s[i] : i \in 1..Len(s)}

\* (mutant) only the amounts above 100 are transfers
IsLargeTransfer(tx) == TxFields(tx).Amount > 100

IsTransfer(tx) == TxFields(tx).Amount # 0

\* the transactions whose Amount is not 0, in order
removeNonTransferTransactionsAndConvert(transactions) ==
    SelectSeq(transactions, IsTransfer)

\* txsPerIdentity[id]: each transaction is appended to the list of its
\* destination and then to the list of its source
RECURSIVE TransferListOf(_, _, _)
TransferListOf(txs, i, id) ==
    IF i > Len(txs) THEN <<>>
    ELSE LET f == TxFields(txs[i]) IN
         (IF f.DestId = id THEN <<txs[i]>> ELSE <<>>)
            \o (IF f.SourceId = id THEN <<txs[i]>> ELSE <<>>)
            \o TransferListOf(txs, i + 1, id)

\* an identity without a transfer has no entry: its list is empty here
createTransferTransactionsIdentityMap(txs) ==
    [id \in Identities |-> TransferListOf(txs, 1, id)]

IsClassified(tx) == ParseAssetTransaction(tx).err = "nil"

\* the parsed transactions the classifier accepts, in order: a transaction
\* that is not valid is left out, any other error ends the conversion
removeNonTransactionWithAssetPayloadsAndConvert(transactions) ==
    LET parsed == [i \in 1..Len(transactions) |-> ParseAssetTransaction(transactions[i])] IN
    IF \E i \in 1..Len(parsed) :
          parsed[i].err \notin {"nil", ErrNotValidTransaction.err}
    THEN [err |-> "parse asset transaction", txs |-> <<>>]
    ELSE [err |-> "nil", txs |-> SelectSeq(parsed, LAMBDA p : p.err = "nil")]

\* identityMap[identity][assetId]: the ids of the transactions of the
\* identity in the asset, in order
RECURSIVE AssetListOf(_, _, _, _)
AssetListOf(txs, i, identity, assetId) ==
    IF i > Len(txs) THEN <<>>
    ELSE LET d == FindTransactionIdParticipantsAndCurrency(txs[i]) IN
         (IF /\ d.err = "nil"
             /\ identity \in Range(d.Identities)
             /\ d.Currency.AssetIssuer \o d.Currency.AssetName = assetId
          THEN <<d.TxId>> ELSE <<>>)
            \o AssetListOf(txs, i + 1, identity, assetId)

\* an (identity, asset) pair without a transaction has no entry: its list is
\* empty here
createIdentityMap(txs) ==
    [k \in Identities \X AssetIds |-> AssetListOf(txs, 1, k[1], k[2])]

----------------------------------------------------------------------------
(* The store: one field per key prefix. A value is <<>> while its key is    *)
(* absent and <<v>> once v was written under the key.                       *)

Ticks == 1..NumTicks

\* the ticks of the model belong to one epoch
Epochs == {1}

EmptyStore ==
    [computors   |-> {},
     quorumData  |-> {},
     tickData    |-> [t \in Ticks |-> <<>>],
     tickTx      |-> {},
     transfers   |-> [k \in Identities \X Ticks |-> <<>>],
     assets      |-> [k \in Identities \X AssetIds \X Ticks |-> <<>>],
     lastProcessedTick |-> [TickNumber |-> 0, Epoch |-> 0],
     lastProcessedTickPerEpoch |-> [e \in Epochs |-> 0],
     processedTickIntervals |-> [e \in Epochs |-> <<>>]]

SetComputors(d, epoch) == [d EXCEPT !.computors = @ \cup {epoch}]

SetQuorumTickData(d, tickNumber) == [d EXCEPT !.quorumData = @ \cup {tickNumber}]

SetTickData(d, tickNumber, td) == [d EXCEPT !.tickData[tickNumber] = <<td>>]

\* one batch: every transaction under the key of its id
SetTransactions(d, txs) == [d EXCEPT !.tickTx = @ \cup Range(txs)]

\* (mutant) the transactions are appended to the list the key holds
AppendTransferTransactionsPerTick(d, identity, tickNumber, txs) ==
    [d EXCEPT !.transfers[<<identity, tickNumber>>] =
                  <<[TickNumber |-> tickNumber, Identity |-> identity,
                     Transactions |-> (IF @ = <<>> THEN <<>> ELSE @[1].Transactions) \o txs]>>]

PutTransferTransactionsPerTick(d, identity, tickNumber, txs) ==
    [d EXCEPT !.transfers[<<identity, tickNumber>>] =
                  <<[TickNumber |-> tickNumber, Identity |-> identity, Transactions |-> txs]>>]

\* one batch: a key for every (identity, asset) entry of the map
PutAssetTransactionsPerTickBatch(d, identityMap, tickNumber) ==
    [d EXCEPT !.assets =
        [k \in DOMAIN @ |->
            IF k[3] = tickNumber /\ identityMap[<<k[1], k[2]>>] # <<>>
            THEN <<identityMap[<<k[1], k[2]>>]>>
            ELSE @[k]]]

\* SetLastProcessedTick, the batch: the per-epoch key and the global key
SetLastProcessedTickBatch(d, tickNumber, epoch) ==
    [d EXCEPT !.lastProcessedTickPerEpoch[epoch] = tickNumber,
              !.lastProcessedTick = [TickNumber |-> tickNumber, Epoch |-> epoch]]

\* SetLastProcessedTick, after the batch: the last interval of the epoch is
\* extended, or its first interval is created
SetLastProcessedTickIntervals(d, tickNumber, epoch) ==
    LET ptie == d.processedTickIntervals[epoch] IN
    [d EXCEPT !.processedTickIntervals[epoch] =
        IF Len(ptie) = 0
        THEN <<[InitialProcessedTick |-> tickNumber, LastProcessedTick |-> tickNumber]>>
        ELSE [ptie EXCEPT ![Len(ptie)].LastProcessedTick = tickNumber]]

\* tick.Store: the tick body is stored with the ids of its non-zero digests
TickDataToProto(tickNumber, transactionDigests) ==
    LET nonZero == SelectSeq(transactionDigests, LAMBDA d : d # emptyTxDigest) IN
    [TickNumber |-> tickNumber,
     TransactionIds |-> [i \in 1..Len(nonZero) |-> [id |-> nonZero[i]]]]

\* the records of tick T: the tick body, the transactions of the tick, the
\* transfer records and the asset index lists of the tick
TickRecords(d, T) ==
    [tickData  |-> d.tickData[T],
     tickTx    |-> {tx \in d.tickTx : tx.body.tick = T},
     transfers |-> [i \in Identities |-> d.transfers[<<i, T>>]],
     assets    |-> [k \in Identities \X AssetIds |-> d.assets[<<k[1], k[2], T>>]]]

NoRecords == TickRecords(EmptyStore, 1)

----------------------------------------------------------------------------
(* The values the variables of a specification keep while another          *)
(* specification runs                                                       *)

PageTicks == 1..MaxTick

\* the endTick values a client sends: omitted, the first tick, the newest tick
\* of the index, and the largest tick number
EndTicks == {0, 1, MaxTick, MaxUintTick}

NoCall == [called |-> FALSE, endTick |-> 0, txnIndexStart |-> 0,
           res |-> GetIdetityAssetTransactionsFromEnd([t \in PageTicks |-> <<>>], 0, TRUE, 0, 0, 1)]

PageIdle ==
    /\ aidx = [t \in PageTicks |-> <<>>]
    /\ plpt = 0
    /\ q = [includeFailed |-> TRUE, limit |-> 0, endTick |-> 0]
    /\ cur = [endTick |-> 0, txnIndexStart |-> 0]
    /\ got = <<>>
    /\ last = NoCall
    /\ calls = 0

NotValidated == [done |-> FALSE, err |-> "nil", txs |-> <<>>]

NotDecoded == [done |-> FALSE, err |-> "nil"]

DecodeIdle ==
    /\ decIn = <<>>
    /\ decOut = NotDecoded

\* no last processed tick was written: the global key is absent and the
\* per-epoch table is empty
NoLpt ==
    [arg |-> [TickNumber |-> 0, Epoch |-> 0], written |-> FALSE,
     value |-> <<>>, perEpoch |-> <<>>,
     ret |-> [done |-> FALSE, err |-> "nil"]]

LptIdle == lptKv = NoLpt

\* a store no migration has run on, and no run of PerformMigrations
NoMig ==
    [version |-> <<>>, quorumData |-> FALSE, applied |-> {}, persisted |-> {},
     pc |-> "stopped", currentVersion |-> 0, idx |-> 0, invoked |-> <<>>,
     failed |-> {}, atStart |-> <<>>, hadQuorumData |-> FALSE, err |-> "nil",
     startups |-> 0]

MigIdle == mig = NoMig

\* no run of AssetTransferMigration
NoAtm ==
    [pc |-> "stopped", tickNumber |-> 0, lastTick |-> 0, err |-> "nil",
     skipped |-> {}, stoppedPartWay |-> FALSE, runs |-> 0]

AtmIdle == atm = NoAtm

\* no request to the query facade
NoRpc ==
    [op |-> "none", number |-> 0, decodes |-> TRUE, stored |-> {}, fault |-> "none",
     done |-> FALSE, code |-> "OK"]

RpcIdle == rpc = NoRpc

\* no run of ValidateTick on a vote list
NoVt ==
    [pc |-> "stopped", votes |-> <<>>, tickDigest |-> 0, stored |-> FALSE,
     callerDone |-> FALSE, expired |-> FALSE, ticks |-> 0, writes |-> 0,
     foundStored |-> FALSE, wroteThisTick |-> FALSE, quorumValidated |-> FALSE,
     shortcut |-> FALSE, tickValidated |-> FALSE, usedDigest |-> 0,
     startedWhenDone |-> FALSE, err |-> "nil"]

VtIdle == vt = NoVt

\* no call of a read accessor
NoAcc ==
    [accessor |-> "none", engine |-> "found", second |-> "found", done |-> FALSE,
     err |-> "nil", calls |-> 0]

AccIdle == acc = NoAcc

ApiIdle == LptIdle /\ MigIdle /\ AtmIdle /\ RpcIdle /\ VtIdle /\ AccIdle

TxIdle ==
    /\ tvIn = [digests |-> <<>>, transactions |-> <<>>]
    /\ tvOut = NotValidated
    /\ DecodeIdle
    /\ ApiIdle

NoError == [kind |-> "none", at |-> ""]

NoRun ==
    [tick |-> 0, epoch |-> 0, emptyTxDigest |-> FALSE, tickData |-> <<>>, validTxs |-> <<>>,
     quorumValidated |-> FALSE, tickValidated |-> FALSE, txValidated |-> FALSE,
     pending |-> {}, before |-> NoRecords, previousLast |-> 0, err |-> NoError]

NoObservation == [seen |-> FALSE, tick |-> 0, view |-> NoRecords]

PipeIdle ==
    /\ db = EmptyStore
    /\ pc = "idle"
    /\ run = NoRun
    /\ proc = [next |-> 1, processed |-> {}, skipped |-> {}, votes |-> <<>>, body |-> <<>>]
    /\ obs = NoObservation

----------------------------------------------------------------------------
(* SpecTx: tx.Validate applied to what the node returned for a tick         *)

InitTx ==
    /\ tvIn \in [digests : [1..NumSlots -> Digests],
                 transactions : SeqsUpTo(Transactions, MaxTxs)]
    /\ tvOut = NotValidated
    /\ DecodeIdle
    /\ ApiIdle
    /\ PageIdle
    /\ PipeIdle

ApplyValidate ==
    /\ ~tvOut.done
    /\ LET r == Validate(tvIn.transactions, tvIn.digests)
       IN  tvOut' = [done |-> TRUE, err |-> r.err, txs |-> r.txs]
    /\ UNCHANGED tvIn
    /\ UNCHANGED decVars
    /\ UNCHANGED apiVars
    /\ UNCHANGED pageVars
    /\ UNCHANGED pipeVars

NextTx == ApplyValidate

----------------------------------------------------------------------------
(* SpecDecode: the input of an asset-transfer transaction is decoded        *)

\* the asset names of the inputs, as the 8 little-endian bytes of the
\* uint64: X, CFB, a name of 8 bytes, a name after a zero byte, a name with
\* a zero byte inside, and no name
AssetNames ==
    {<<88>> \o Zeros(7), <<67, 70, 66>> \o Zeros(5), [i \in 1..8 |-> 88],
     <<0, 88>> \o Zeros(6), <<88, 0, 88>> \o Zeros(5), Zeros(8)}

UnitValues == {0, 5, 4565118, -1}

\* the lengths the inputs are cut to or padded to: every field boundary, one
\* byte less than the whole input, the whole input, and one byte more
InputLengths == {0, 31, 32, 63, 64, 71, 72, 79, 80, 81}

WholeInputs ==
    {MarshalBinary([Issuer |-> PublicKey(issuer), NewOwnerAndPossessor |-> PublicKey(newOwner),
                    AssetName |-> name, NumberOfUnits |-> units]) :
        issuer \in {"I", "A"}, newOwner \in {"C", "B"},
        name \in AssetNames, units \in UnitValues}

DecodeInputs ==
    {[i \in 1..n |-> IF i <= Len(data) THEN data[i] ELSE 255] :
        data \in WholeInputs, n \in InputLengths}

InitDecode ==
    /\ decIn \in DecodeInputs
    /\ decOut = NotDecoded
    /\ tvIn = [digests |-> <<>>, transactions |-> <<>>]
    /\ tvOut = NotValidated
    /\ ApiIdle
    /\ PageIdle
    /\ PipeIdle

\* ParseAssetTransaction, lines 135-146: UnmarshalBinary, then
\* GetAssetTransfer
ApplyUnmarshal ==
    /\ ~decOut.done
    /\ LET input == UnmarshalBinary(decIn) IN
       decOut' = IF input.err # "nil"
                 THEN [done |-> TRUE, err |-> input.err]
                 ELSE [done |-> TRUE, err |-> "nil", input |-> input,
                       payload |-> GetAssetTransfer(input)]
    /\ UNCHANGED <<decIn, tvIn, tvOut>>
    /\ UNCHANGED apiVars
    /\ UNCHANGED pageVars
    /\ UNCHANGED pipeVars

NextDecode == ApplyUnmarshal

SpecDecode == InitDecode /\ [][NextDecode]_vars

----------------------------------------------------------------------------
(* SpecLpt: SetLastProcessedTick writes the last processed tick and         *)
(* GetLastProcessedTick reads it back                                       *)

\* a base-128 varint: 7 bits a byte, the low ones first, the top bit set on
\* every byte but the last
RECURSIVE Varint(_)
Varint(v) == IF v < 128 THEN <<v>> ELSE <<128 + (v % 128)>> \o Varint(v \div 128)

\* the value of the varint at the head of bytes and the bytes after it; the
\* value is -1 when the bytes end inside the varint
RECURSIVE ReadVarint(_)
ReadVarint(bytes) ==
    IF bytes = <<>> THEN [value |-> -1, rest |-> <<>>]
    ELSE IF bytes[1] < 128 THEN [value |-> bytes[1], rest |-> Tail(bytes)]
    ELSE LET r == ReadVarint(Tail(bytes)) IN
         IF r.value < 0 THEN r
         ELSE [value |-> (bytes[1] - 128) + 128 * r.value, rest |-> r.rest]

\* the tags of the fields of ProcessedTick: tick_number is field 1 and epoch
\* field 2, both varints
TickNumberTag == 8
EpochTag == 16

\* proto.Marshal of a ProcessedTick: a field that is 0 is left out
MarshalProcessedTick(pt) ==
    (IF pt.TickNumber # 0 THEN <<TickNumberTag>> \o Varint(pt.TickNumber) ELSE <<>>)
        \o (IF pt.Epoch # 0 THEN <<EpochTag>> \o Varint(pt.Epoch) ELSE <<>>)

\* proto.Unmarshal into a ProcessedTick: the fields are read one after the
\* other; a tag that is not of the message or a cut varint is an error
RECURSIVE UnmarshalProcessedTick(_, _)
UnmarshalProcessedTick(bytes, pt) ==
    IF bytes = <<>> THEN [err |-> "nil", TickNumber |-> pt.TickNumber, Epoch |-> pt.Epoch]
    ELSE LET r == ReadVarint(Tail(bytes)) IN
         IF bytes[1] \notin {TickNumberTag, EpochTag} \/ r.value < 0
         THEN [err |-> "unmarshalling lpt to protobuff type", TickNumber |-> 0, Epoch |-> 0]
         ELSE UnmarshalProcessedTick(r.rest,
                  IF bytes[1] = TickNumberTag THEN [pt EXCEPT !.TickNumber = r.value]
                                              ELSE [pt EXCEPT !.Epoch = r.value])

\* the width of the value of the old format, and of a uint32
LegacyValueSize == 8
Uint32Size == 4

\* SetLastProcessedTick, the batch: the tick under the key of the epoch, as
\* 4 little-endian bytes, and the marshalled record under the global key
PutLastProcessedTick(l, lastProcessedTick) ==
    [l EXCEPT !.written = TRUE,
              !.perEpoch = <<[Epoch |-> lastProcessedTick.Epoch,
                              value |-> PutLittleEndian(lastProcessedTick.TickNumber, Uint32Size)]>>,
              !.value = MarshalProcessedTick(lastProcessedTick)]

\* GetLastProcessedTick on the value of the global key. A tick number is
\* returned as the 4 little-endian bytes of the uint32.
GetLastProcessedTick(l) ==
    IF ~l.written THEN [err |-> "ErrNotFound"]
    ELSE IF Len(l.value) = LegacyValueSize
    THEN LET tickNumber == SubSeq(l.value, 1, Uint32Size)
             matching == SelectSeq(l.perEpoch, LAMBDA e : e.value = tickNumber)
         IN  [err |-> "nil", TickNumber |-> tickNumber,
              Epoch |-> IF matching = <<>> THEN 0 ELSE matching[1].Epoch]
    ELSE LET lptRecord == UnmarshalProcessedTick(l.value, [TickNumber |-> 0, Epoch |-> 0]) IN
         IF lptRecord.err # "nil" THEN [err |-> lptRecord.err]
         ELSE [err |-> "nil",
               TickNumber |-> PutLittleEndian(lptRecord.TickNumber, Uint32Size),
               Epoch |-> lptRecord.Epoch]

\* the tick numbers and the epochs of the calls: 0, and the ends of the
\* ranges of the varints of 1, 2, 3, 4 and 5 bytes, and a tick and an epoch
\* of the network
TickNumbers ==
    {0, 1, 127, 128, 16383, 16384, 2097151, 2097152, 15000000, 268435455, 268435456}

EpochNumbers == {0, 1, 127, 128, 130, 16383, 16384, 2097151, 2097152}

InitLpt ==
    /\ lptKv \in {[NoLpt EXCEPT !.arg = a] : a \in [TickNumber : TickNumbers, Epoch : EpochNumbers]}
    /\ MigIdle
    /\ AtmIdle
    /\ RpcIdle
    /\ tvIn = [digests |-> <<>>, transactions |-> <<>>]
    /\ tvOut = NotValidated
    /\ DecodeIdle
    /\ VtIdle
    /\ AccIdle
    /\ PageIdle
    /\ PipeIdle

CallSetLastProcessedTick ==
    /\ ~lptKv.written
    /\ lptKv' = PutLastProcessedTick(lptKv, lptKv.arg)
    /\ UNCHANGED <<tvIn, tvOut, decIn, decOut, mig, atm, rpc, vt, acc>>
    /\ UNCHANGED <<pageVars, pipeVars>>

CallGetLastProcessedTick ==
    /\ lptKv.written
    /\ ~lptKv.ret.done
    /\ lptKv' = [lptKv EXCEPT !.ret = [done |-> TRUE] @@ GetLastProcessedTick(lptKv)]
    /\ UNCHANGED <<tvIn, tvOut, decIn, decOut, mig, atm, rpc, vt, acc>>
    /\ UNCHANGED <<pageVars, pipeVars>>

NextLpt == CallSetLastProcessedTick \/ CallGetLastProcessedTick

SpecLpt == InitLpt /\ [][NextLpt]_vars

----------------------------------------------------------------------------
(* SpecMig: PerformMigrations, startup after startup                        *)

\* length of the registry of migrations, and the startups that are followed
NumMigrations == 2

MaxStartups == 3

MigrationVersionSize == 4

GetMigrationVersion(m) ==
    IF m.version = <<>>
    THEN [version |-> 0, err |-> "ErrNotFound"]
    ELSE IF Len(m.version) < MigrationVersionSize
         THEN [version |-> 0, err |-> "migration version data is corrupted"]
         ELSE [version |-> LittleEndianUint(SubSeq(m.version, 1, MigrationVersionSize)),
               err |-> "nil"]

\* persisted: every version the key has held
SetMigrationVersion(m, version) ==
    [m EXCEPT !.version = PutLittleEndian(version, MigrationVersionSize),
              !.persisted = @ \cup {version}]

\* (mutant) the version is taken to be 0 whatever was read
forceVersionZero(read) == 0

\* the version PerformMigrations goes on with, when the read did not fail
currentVersionOf(read) == IF read.err = "ErrNotFound" THEN 0 ELSE read.version

migrationIndex(idx) == idx + 1

\* (mutant) the migration of the current version runs again
ShouldMigrateFromCurrent(index, currentVersion) == index >= currentVersion

ShouldMigrate(index, currentVersion) == index > currentVersion

\* (mutant) the error of a migration is dropped
MigrateNeverFails(err) == FALSE

MigrateFailed(err) == err # "nil"

ReturnFromMigrations(m, err) == [m EXCEPT !.pc = "returned", !.err = err]

\* (mutant) the range of the prefix is not deleted
KeepKeysOfQuorumData(m) == m

\* ClearKeysByPrefix(store.QuorumData): DeleteRange over the keys of the prefix
ClearKeysOfQuorumData(m) == [m EXCEPT !.quorumData = FALSE]

\* what can fail in ClearKeysByPrefix: the count before the deletion, the
\* deletion, the count after it
ClearFaults == {"none", "count before", "delete range", "count after"}

\* DeleteUnusedDataMigration, DeleteQuorumData being true
DeleteUnusedDataMigration(m, fault) ==
    IF fault = "none" THEN [store |-> ClearKeysOfQuorumData(m), err |-> "nil"]
    ELSE IF fault = "count after"
         THEN [store |-> ClearKeysOfQuorumData(m), err |-> "deleting quorum data"]
         ELSE [store |-> m, err |-> "deleting quorum data"]

\* a store of an earlier release may hold quorum data
InitMig ==
    /\ mig \in {[NoMig EXCEPT !.quorumData = b] : b \in BOOLEAN}
    /\ LptIdle
    /\ AtmIdle
    /\ RpcIdle
    /\ tvIn = [digests |-> <<>>, transactions |-> <<>>]
    /\ tvOut = NotValidated
    /\ DecodeIdle
    /\ VtIdle
    /\ AccIdle
    /\ PageIdle
    /\ PipeIdle

\* the process starts: the clean-up step and the read of the version
StartPerformMigrations ==
    /\ mig.pc = "stopped"
    /\ mig.startups < MaxStartups
    /\ \E fault \in ClearFaults, getErr \in BOOLEAN :
        LET m0 == [mig EXCEPT !.startups = @ + 1, !.invoked = <<>>, !.failed = {},
                              !.idx = 0, !.currentVersion = 0, !.err = "nil",
                              !.atStart = mig.version,
                              !.hadQuorumData = mig.quorumData]
            deleted == DeleteUnusedDataMigration(m0, fault)
            m1 == deleted.store
            read == GetMigrationVersion(m1)
        IN  mig' =
              IF deleted.err # "nil"
              THEN ReturnFromMigrations(m1, "deleting unused data")
              ELSE IF getErr \/ read.err \notin {"nil", "ErrNotFound"}
                   THEN ReturnFromMigrations(m1, "unable to fetch current migration version")
                   ELSE [m1 EXCEPT !.pc = "loop", !.currentVersion = currentVersionOf(read)]
    /\ UNCHANGED <<tvIn, tvOut, decIn, decOut, lptKv, atm, rpc, vt, acc>>
    /\ UNCHANGED <<pageVars, pipeVars>>

\* an iteration over a migration that is not run
SkipMigration ==
    /\ mig.pc = "loop"
    /\ mig.idx < NumMigrations
    /\ ~ShouldMigrate(migrationIndex(mig.idx), mig.currentVersion)
    /\ mig' = [mig EXCEPT !.idx = @ + 1]
    /\ UNCHANGED <<tvIn, tvOut, decIn, decOut, lptKv, atm, rpc, vt, acc>>
    /\ UNCHANGED <<pageVars, pipeVars>>

\* migrate(ps): applied holds the migrations whose effect is in the store
RunMigration ==
    /\ mig.pc = "loop"
    /\ mig.idx < NumMigrations
    /\ ShouldMigrate(migrationIndex(mig.idx), mig.currentVersion)
    /\ \E err \in {"nil", "migration failed"} :
        LET i == migrationIndex(mig.idx)
            m1 == [mig EXCEPT !.invoked = Append(@, i),
                              !.failed = IF err = "nil" THEN @ ELSE @ \cup {i},
                              !.applied = IF err = "nil" THEN @ \cup {i} ELSE @]
        IN  mig' = IF MigrateFailed(err)
                   THEN ReturnFromMigrations(m1, "error running migration")
                   ELSE [m1 EXCEPT !.pc = "setVersion"]
    /\ UNCHANGED <<tvIn, tvOut, decIn, decOut, lptKv, atm, rpc, vt, acc>>
    /\ UNCHANGED <<pageVars, pipeVars>>

PersistMigrationVersion ==
    /\ mig.pc = "setVersion"
    /\ \E setErr \in BOOLEAN :
        mig' = IF setErr
               THEN ReturnFromMigrations(mig, "error updating migration version")
               ELSE [SetMigrationVersion(mig, migrationIndex(mig.idx))
                        EXCEPT !.pc = "loop", !.idx = @ + 1]
    /\ UNCHANGED <<tvIn, tvOut, decIn, decOut, lptKv, atm, rpc, vt, acc>>
    /\ UNCHANGED <<pageVars, pipeVars>>

AllMigrationsCompleted ==
    /\ mig.pc = "loop"
    /\ mig.idx = NumMigrations
    /\ mig' = ReturnFromMigrations(mig, "nil")
    /\ UNCHANGED <<tvIn, tvOut, decIn, decOut, lptKv, atm, rpc, vt, acc>>
    /\ UNCHANGED <<pageVars, pipeVars>>

\* the process ends, after PerformMigrations returned or in the middle of it;
\* the archiver that ran after PerformMigrations returned nil may have stored
\* the quorum votes of the ticks it processed
StopProcess ==
    /\ mig.pc \in {"loop", "setVersion", "returned"}
    /\ \E stored \in BOOLEAN :
          /\ stored => (mig.pc = "returned" /\ mig.err = "nil")
          /\ mig' = [mig EXCEPT !.pc = "stopped", !.quorumData = @ \/ stored]
    /\ UNCHANGED <<tvIn, tvOut, decIn, decOut, lptKv, atm, rpc, vt, acc>>
    /\ UNCHANGED <<pageVars, pipeVars>>

NextMig ==
    \/ StartPerformMigrations
    \/ SkipMigration
    \/ RunMigration
    \/ PersistMigrationVersion
    \/ AllMigrationsCompleted
    \/ StopProcess

SpecMig == InitMig /\ [][NextMig]_vars

----------------------------------------------------------------------------
(* SpecRpc: one request to the query facade                                 *)

RpcOperations ==
    {"GetTickData", "GetTickTransactions", "GetTransaction", "GetQuorumTickData",
     "GetComputors", "GetLastProcessedTick"}

\* what goes wrong in the store besides an absent key: db.Get fails, or the
\* value does not unmarshal
StoreFaults == {"none", "read error", "unmarshal error"}

\* the error of the store accessor of the request: the key of the number
\* asked for is looked up (the last processed tick has one key, present
\* once a tick was processed)
StoreErrorOf(r) ==
    LET present == IF r.op = "GetLastProcessedTick" THEN r.stored # {}
                   ELSE r.number \in r.stored
    IN  IF r.fault = "read error" THEN "getting from store"
        ELSE IF ~present THEN "ErrNotFound"
        ELSE IF r.fault = "unmarshal error" THEN "unmarshalling to protobuff type"
        ELSE "nil"

\* if errors.Cause(err) == store.ErrNotFound { NotFound } else { Internal }
NotFoundOrInternal(err) ==
    IF err = "nil" THEN "OK"
    ELSE IF err = "ErrNotFound" THEN "NotFound"
    ELSE "Internal"

\* GetTickData, GetTickTransactions, GetQuorumTickData, GetComputors
GetFromStore(r) == NotFoundOrInternal(StoreErrorOf(r))

\* GetTransaction: the id is decoded before the store is read
GetTransactionRpc(r) ==
    IF ~r.decodes THEN "InvalidArgument" ELSE NotFoundOrInternal(StoreErrorOf(r))

\* GetLastProcessedTick: every error of the store is Internal
GetLastProcessedTickRpc(r) ==
    IF StoreErrorOf(r) # "nil" THEN "Internal" ELSE "OK"

\* the requests: only the transaction id of GetTransaction is an argument
\* that can fail to decode
InitRpc ==
    /\ rpc \in [op : RpcOperations, number : 0..NumTicks, decodes : BOOLEAN,
                stored : SUBSET Ticks, fault : StoreFaults, done : {FALSE}, code : {"OK"}]
    /\ rpc.op # "GetTransaction" => rpc.decodes
    /\ LptIdle
    /\ MigIdle
    /\ AtmIdle
    /\ tvIn = [digests |-> <<>>, transactions |-> <<>>]
    /\ tvOut = NotValidated
    /\ DecodeIdle
    /\ VtIdle
    /\ AccIdle
    /\ PageIdle
    /\ PipeIdle

ServeRequest ==
    /\ ~rpc.done
    /\ rpc' = [rpc EXCEPT !.done = TRUE,
                          !.code = IF rpc.op = "GetTransaction" THEN GetTransactionRpc(rpc)
                                   ELSE IF rpc.op = "GetLastProcessedTick"
                                        THEN GetLastProcessedTickRpc(rpc)
                                        ELSE GetFromStore(rpc)]
    /\ UNCHANGED <<tvIn, tvOut, decIn, decOut, lptKv, mig, atm, vt, acc>>
    /\ UNCHANGED <<pageVars, pipeVars>>

NextRpc == ServeRequest

SpecRpc == InitRpc /\ [][NextRpc]_vars

----------------------------------------------------------------------------
(***************************************************************************)
(* SpecValidate: Validator.ValidateTick on the votes a node returned, tick *)
(* after tick within one epoch.  A vote is the value of its digest tuple;  *)
(* the value EmptyTxDigest is the tuple whose txDigest is all zeros.       *)
(***************************************************************************)

NumComputors == 4

MaxDigest == 1

MaxValidatedTicks == 2

VoteDigests == 0..MaxDigest

EmptyTxDigest == 0

MinimumQuorumVotes == (NumComputors * 2) \div 3 + 1

VoteLists == UNION {[1..n -> VoteDigests] : n \in 0..NumComputors}

VotesFor(votes, d) == Cardinality({i \in DOMAIN votes : votes[i] = d})

\* the digests of the groups of at least MinimumQuorumVotes identical votes
DominantDigests(votes) == {d \in VoteDigests : VotesFor(votes, d) >= MinimumQuorumVotes}

\* quorum.Validate: enough votes, one group of MinimumQuorumVotes identical
\* votes, and the signatures of that group
QuorumValidate(votes, signaturesVerify) ==
    IF Len(votes) < MinimumQuorumVotes THEN "not enough quorum votes"
    ELSE IF DominantDigests(votes) = {} THEN "not enough aligned votes"
    ELSE IF ~signaturesVerify THEN "quorum signature"
    ELSE "nil"

\* tick.Validate(ctx, tickData, quorumTickVote, comps): the digest of the tick
\* body against the txDigest of the vote it is given
TickValidate(tickDigest, vote, signatureVerifies) ==
    IF tickDigest # vote THEN "tick digest mismatch"
    ELSE IF ~signatureVerifies THEN "tick signature"
    ELSE "nil"

\* the vote ValidateTick takes the epoch and the txDigest from
FirstVote(votes) == votes[1]

\* the fetches of the node connector end with the error of the context once
\* the context they are given is done
ContextError(r) == IF r.expired THEN "context deadline exceeded" ELSE "nil"

ReturnFromValidate(r, err) ==
    vt' = [r EXCEPT !.pc = "returned", !.err = err]

StepOfValidate(r) == [r EXCEPT !.startedWhenDone = r.startedWhenDone \/ r.callerDone]

InitValidate ==
    /\ vt \in [pc : {"stopped"}, votes : {<<>>}, tickDigest : {0}, stored : BOOLEAN,
               callerDone : {FALSE}, expired : {FALSE}, ticks : {0}, writes : {0},
               foundStored : {FALSE}, wroteThisTick : {FALSE}, quorumValidated : {FALSE},
               shortcut : {FALSE}, tickValidated : {FALSE}, usedDigest : {0},
               startedWhenDone : {FALSE}, err : {"nil"}]
    /\ AccIdle
    /\ LptIdle
    /\ MigIdle
    /\ AtmIdle
    /\ RpcIdle
    /\ tvIn = [digests |-> <<>>, transactions |-> <<>>]
    /\ tvOut = NotValidated
    /\ DecodeIdle
    /\ PageIdle
    /\ PipeIdle

\* the caller calls ValidateTick with its context; ValidateTick makes the
\* context of the run from context.Background() with a timeout
EnterValidateTick ==
    /\ vt.pc \in {"stopped", "returned"}
    /\ vt.ticks < MaxValidatedTicks
    /\ \E votes \in VoteLists, tickDigest \in VoteDigests \ {EmptyTxDigest}, done \in BOOLEAN :
          vt' = [vt EXCEPT !.pc = "getQuorumVotes", !.votes = votes, !.tickDigest = tickDigest,
                           !.callerDone = done, !.expired = FALSE, !.ticks = vt.ticks + 1,
                           !.foundStored = FALSE, !.wroteThisTick = FALSE,
                           !.quorumValidated = FALSE, !.shortcut = FALSE,
                           !.tickValidated = FALSE, !.usedDigest = 0,
                           !.startedWhenDone = FALSE, !.err = "nil"]
    /\ UNCHANGED <<tvIn, tvOut, decIn, decOut, lptKv, mig, atm, rpc, acc>>
    /\ UNCHANGED <<pageVars, pipeVars>>

\* the caller cancels the context it passed, or the deadline of that context passes
CallerContextDone ==
    /\ vt.pc \notin {"stopped", "returned"}
    /\ ~vt.callerDone
    /\ vt' = [vt EXCEPT !.callerDone = TRUE]
    /\ UNCHANGED <<tvIn, tvOut, decIn, decOut, lptKv, mig, atm, rpc, acc>>
    /\ UNCHANGED <<pageVars, pipeVars>>

\* the five seconds of the context of the run pass
RunDeadlineExpires ==
    /\ vt.pc \notin {"stopped", "returned"}
    /\ ~vt.expired
    /\ vt' = [vt EXCEPT !.expired = TRUE]
    /\ UNCHANGED <<tvIn, tvOut, decIn, decOut, lptKv, mig, atm, rpc, acc>>
    /\ UNCHANGED <<pageVars, pipeVars>>

GetQuorumVotes ==
    /\ vt.pc = "getQuorumVotes"
    /\ LET r == StepOfValidate(vt)
       IN  IF ContextError(r) # "nil" THEN ReturnFromValidate(r, "getting quorum tick data")
           ELSE IF Len(r.votes) = 0 THEN ReturnFromValidate(r, "not quorum votes fetched")
           ELSE \/ ReturnFromValidate(r, "getting quorum tick data")
                \/ vt' = [r EXCEPT !.pc = "computors"]
    /\ UNCHANGED <<tvIn, tvOut, decIn, decOut, lptKv, mig, atm, rpc, acc>>
    /\ UNCHANGED <<pageVars, pipeVars>>

\* computors.Get from the store, else GetComputors from the node;
\* computors.Validate; computors.Store
GetValidateAndStoreComputors ==
    /\ vt.pc = "computors"
    /\ LET r == [StepOfValidate(vt) EXCEPT !.foundStored = vt.stored]
       IN  \/ ReturnFromValidate(r, "getting computors from store")
           \/ /\ ~r.stored
              /\ ReturnFromValidate(r, "getting computors from qubic")
           \/ /\ r.stored \/ ContextError(r) = "nil"
              /\ \/ ReturnFromValidate(r, "validating comps")
                 \/ ReturnFromValidate(r, "storing computors")
                 \/ vt' = [r EXCEPT !.pc = "quorum", !.stored = TRUE,
                                    !.writes = r.writes + 1, !.wroteThisTick = TRUE]
    /\ UNCHANGED <<tvIn, tvOut, decIn, decOut, lptKv, mig, atm, rpc, acc>>
    /\ UNCHANGED <<pageVars, pipeVars>>

ValidateQuorum ==
    /\ vt.pc = "quorum"
    /\ \E signaturesVerify \in BOOLEAN :
          LET r == StepOfValidate(vt)
              err == QuorumValidate(r.votes, signaturesVerify)
          IN  IF err # "nil" THEN ReturnFromValidate(r, "validating quorum")
              ELSE IF FirstVote(r.votes) = EmptyTxDigest
              THEN ReturnFromValidate([r EXCEPT !.quorumValidated = TRUE, !.shortcut = TRUE,
                                                !.usedDigest = FirstVote(r.votes)], "nil")
              ELSE vt' = [r EXCEPT !.pc = "tickData", !.quorumValidated = TRUE,
                                   !.usedDigest = FirstVote(r.votes)]
    /\ UNCHANGED <<tvIn, tvOut, decIn, decOut, lptKv, mig, atm, rpc, acc>>
    /\ UNCHANGED <<pageVars, pipeVars>>

GetAndValidateTickData ==
    /\ vt.pc = "tickData"
    /\ \E signatureVerifies \in BOOLEAN :
          LET r == StepOfValidate(vt)
              err == TickValidate(r.tickDigest, FirstVote(r.votes), signatureVerifies)
          IN  IF ContextError(r) # "nil" THEN ReturnFromValidate(r, "getting tick data")
              ELSE \/ ReturnFromValidate(r, "getting tick data")
                   \/ IF err # "nil" THEN ReturnFromValidate(r, "validating tick data")
                      ELSE vt' = [r EXCEPT !.pc = "transactions", !.tickValidated = TRUE]
    /\ UNCHANGED <<tvIn, tvOut, decIn, decOut, lptKv, mig, atm, rpc, acc>>
    /\ UNCHANGED <<pageVars, pipeVars>>

\* the transactions of the tick are fetched, validated and stored with the
\* quorum votes and the tick data
ValidateAndStoreTransactions ==
    /\ vt.pc = "transactions"
    /\ LET r == StepOfValidate(vt)
       IN  IF ContextError(r) # "nil" THEN ReturnFromValidate(r, "getting tick transactions")
           ELSE \/ ReturnFromValidate(r, "getting tick transactions")
                \/ ReturnFromValidate(r, "validating transactions")
                \/ ReturnFromValidate(r, "nil")
    /\ UNCHANGED <<tvIn, tvOut, decIn, decOut, lptKv, mig, atm, rpc, acc>>
    /\ UNCHANGED <<pageVars, pipeVars>>

NextValidate ==
    \/ EnterValidateTick
    \/ CallerContextDone
    \/ RunDeadlineExpires
    \/ GetQuorumVotes
    \/ GetValidateAndStoreComputors
    \/ ValidateQuorum
    \/ GetAndValidateTickData
    \/ ValidateAndStoreTransactions

SpecValidate == InitValidate /\ [][NextValidate]_vars

----------------------------------------------------------------------------
(***************************************************************************)
(* SpecAccess: calls of the read accessors of PebbleStore that get one     *)
(* key, or the tick data of a tick and then its transactions.  The engine  *)
(* answers a get with the value, with its own not-found error, or with     *)
(* another error.                                                          *)
(***************************************************************************)

MaxAccessCalls == 2

EngineAnswers == {"found", "pebble.ErrNotFound", "error"}

\* the accessors that translate the not-found of the engine with
\* `if errors.Is(err, pebble.ErrNotFound) { return ..., ErrNotFound }`
TranslatingAccessors ==
    {"GetMigrationVersion", "GetTickData", "GetQuorumTickData", "GetComputors",
     "GetTransaction", "GetLastProcessedTick", "GetSkippedTicksInterval",
     "GetChainDigest", "GetStoreDigest", "GetTickTransactionsStatus",
     "GetTransactionStatus"}

\* the accessors that read the tick data and then each transaction of it
TickAccessors == {"GetTickTransactions", "GetTickTransferTransactions"}

Accessors == TranslatingAccessors \cup TickAccessors \cup {"GetEmptyTicksForEpoch"}

\* a get of one key followed by the translation of the not-found
GetOrErrNotFound(answer) ==
    IF answer = "pebble.ErrNotFound" THEN "ErrNotFound"
    ELSE IF answer = "error" THEN "wrapped error"
    ELSE "nil"

\* GetEmptyTicksForEpoch returns the error of the engine as it is when the
\* key is absent
GetEmptyTicksForEpoch(answer) ==
    IF answer = "pebble.ErrNotFound" THEN "pebble.ErrNotFound"
    ELSE IF answer = "error" THEN "wrapped error"
    ELSE "nil"

\* GetTickTransactions and GetTickTransferTransactions: GetTickData, then
\* GetTransaction of the ids of the tick data
GetTransactionsOfTick(answer, second) ==
    LET tdErr == GetOrErrNotFound(answer)
        txErr == GetOrErrNotFound(second)
    IN  IF tdErr = "ErrNotFound" THEN "ErrNotFound"
        ELSE IF tdErr # "nil" THEN "wrapped error"
        ELSE IF txErr = "ErrNotFound" THEN "ErrNotFound"
        ELSE IF txErr # "nil" THEN "wrapped error"
        ELSE "nil"

ErrorOfAccessor(accessor, answer, second) ==
    IF accessor = "GetEmptyTicksForEpoch" THEN GetEmptyTicksForEpoch(answer)
    ELSE IF accessor \in TickAccessors THEN GetTransactionsOfTick(answer, second)
    ELSE GetOrErrNotFound(answer)

InitAccess ==
    /\ acc = NoAcc
    /\ VtIdle
    /\ LptIdle
    /\ MigIdle
    /\ AtmIdle
    /\ RpcIdle
    /\ tvIn = [digests |-> <<>>, transactions |-> <<>>]
    /\ tvOut = NotValidated
    /\ DecodeIdle
    /\ PageIdle
    /\ PipeIdle

CallAccessor ==
    /\ acc.calls < MaxAccessCalls
    /\ \E accessor \in Accessors, answer \in EngineAnswers, second \in EngineAnswers :
          /\ accessor \notin TickAccessors => second = "found"
          /\ acc' = [accessor |-> accessor, engine |-> answer, second |-> second,
                     done |-> TRUE, err |-> ErrorOfAccessor(accessor, answer, second),
                     calls |-> acc.calls + 1]
    /\ UNCHANGED <<tvIn, tvOut, decIn, decOut, lptKv, mig, atm, rpc, vt>>
    /\ UNCHANGED <<pageVars, pipeVars>>

NextAccess == CallAccessor

SpecAccess == InitAccess /\ [][NextAccess]_vars

----------------------------------------------------------------------------
(* SpecPage: a client of the reverse reader that follows the cursors        *)

\* the store holds index entries only for ticks whose processing has started
InitPage ==
    /\ plpt \in {MaxTick - 1, MaxTick}
    /\ plpt >= 1
    /\ aidx \in [PageTicks -> SeqsUpTo(BOOLEAN, MaxPerTick)]
    /\ \A t \in PageTicks : t > plpt + 1 => aidx[t] = <<>>
    /\ q \in [includeFailed : BOOLEAN, limit : 0..MaxLimit, endTick : EndTicks]
    /\ cur = [endTick |-> q.endTick, txnIndexStart |-> 0]
    /\ got = <<>>
    /\ last = NoCall
    /\ calls = 0
    /\ TxIdle
    /\ PipeIdle

\* the client stops on the first empty page
ClientDone == last.called /\ last.res.transactions = <<>>

FetchPage ==
    /\ calls < MaxCalls
    /\ ~ClientDone
    /\ LET res == GetIdetityAssetTransactionsFromEnd(aidx, plpt, q.includeFailed,
                                                     cur.endTick, cur.txnIndexStart, q.limit)
       IN  /\ last' = [called |-> TRUE, endTick |-> cur.endTick,
                       txnIndexStart |-> cur.txnIndexStart, res |-> res]
           /\ got' = got \o res.transactions
           /\ cur' = [endTick |-> res.nextEndTick, txnIndexStart |-> res.nextTxnIndexStart]
    /\ calls' = calls + 1
    /\ UNCHANGED <<aidx, plpt, q>>
    /\ UNCHANGED txVars
    /\ UNCHANGED pipeVars

NextPage == FetchPage

SpecPage == InitPage /\ [][NextPage]_vars

SpecTx == InitTx /\ [][NextTx]_vars

----------------------------------------------------------------------------
(* Spec: Validator.ValidateTick run tick after tick by the outer loop, with *)
(* a reader of the store running beside it                                  *)

\* The node serves one chain: the quorum votes and the tick body it returned
\* for a tick are what it returns when the tick is retried; only the failure
\* of a fetch is transient. proc.votes and proc.body hold what the node has
\* served for the tick proc.next.

\* the quorum votes of a tick: their epoch, whether their txDigest is all
\* zero, and whether they pass quorum.Validate
QuorumVotes == [Epoch : Epochs, EmptyTxDigest : BOOLEAN, valid : BOOLEAN]

IsInjective(s) == \A i, j \in 1..Len(s) : i # j => s[i] # s[j]

\* the digest slots of a tick body: the digests of distinct signed
\* transactions of the tick, then all-zero slots
TickBodies(T) ==
    {[i \in 1..NumSlots |-> IF i <= Len(txs) THEN getDigestFromTransaction(txs[i])
                                              ELSE emptyTxDigest] :
        txs \in {t \in SeqsUpTo({tx \in TransactionsOf(T) : tx.sig = "valid"}, MaxTxs) :
                    IsInjective(t) /\ Len(t) <= NumSlots}}

FetchError(at) == [kind |-> "Fetch", at |-> at]

ValidationError(at) == [kind |-> "Validation", at |-> at]

StoreError(at) == [kind |-> "Store", at |-> at]

Nil == [kind |-> "nil", at |-> ""]

\* return err, from a run whose locals are r: the tick data and the
\* transactions of the run go out of scope
ReturnFrom(r, err) ==
    /\ pc' = "returned"
    /\ run' = [r EXCEPT !.err = err, !.tickData = <<>>, !.validTxs = <<>>, !.pending = {}]

Return(err) == ReturnFrom(run, err)

Init ==
    /\ PipeIdle
    /\ PageIdle
    /\ TxIdle

\* the outer loop calls ValidateTick for its next tick; the quorum votes are
\* fetched (lines 26-37)
StartValidateTick ==
    /\ pc = "idle"
    /\ proc.next \in Ticks
    /\ \E fetched \in BOOLEAN, quorumVotes \in QuorumVotes :
          /\ quorumVotes.Epoch >= db.lastProcessedTick.Epoch
          /\ proc.votes # <<>> => quorumVotes = proc.votes[1]
          /\ LET started == [NoRun EXCEPT !.tick = proc.next,
                                          !.before = TickRecords(db, proc.next)]
             IN  IF fetched
                 THEN /\ pc' = "computors"
                      /\ run' = [started EXCEPT !.epoch = quorumVotes.Epoch,
                                                !.emptyTxDigest = quorumVotes.EmptyTxDigest]
                      /\ proc' = [proc EXCEPT !.votes = <<quorumVotes>>]
                 ELSE /\ ReturnFrom(started, FetchError("getting quorum tick data"))
                      /\ UNCHANGED proc
    /\ obs' = NoObservation
    /\ UNCHANGED db
    /\ UNCHANGED <<pageVars, txVars>>

\* lines 39-62: the computors of the epoch come from the store, or from the
\* node when the store has none; they are validated and stored. A list read
\* from the store was validated before it was stored.
ResolveComputors ==
    /\ pc = "computors"
    /\ \E outcome \in {"stored", "getting computors from store", "getting computors from qubic",
                       "validating comps", "storing computors"} :
          IF outcome = "stored"
          THEN /\ db' = SetComputors(db, run.epoch)
               /\ pc' = "validate"
               /\ UNCHANGED run
          ELSE /\ outcome \in {"getting computors from qubic", "validating comps"}
                      => run.epoch \notin db.computors
               /\ Return(IF outcome = "validating comps" THEN ValidationError(outcome)
                         ELSE IF outcome = "getting computors from qubic" THEN FetchError(outcome)
                         ELSE StoreError(outcome))
               /\ UNCHANGED db
    /\ obs' = NoObservation
    /\ UNCHANGED proc
    /\ UNCHANGED <<pageVars, txVars>>

\* (mutant) the error of tx.Validate is ignored
TxValidationIgnored(r) == TRUE

\* if err != nil { return errors.Wrap(err, "validating transactions") }
TxValidationPassed(r) == r.err = "nil"

\* lines 64-100: quorum.Validate, the empty-tick return, GetTickData,
\* tick.Validate, GetTickTransactions and tx.Validate
ValidateQuorumTickAndTransactions ==
    /\ pc = "validate"
    /\ IF ~proc.votes[1].valid
       THEN /\ Return(ValidationError("validating quorum"))
            /\ UNCHANGED proc
       ELSE IF run.emptyTxDigest
       THEN /\ ReturnFrom([run EXCEPT !.quorumValidated = TRUE], Nil)
            /\ UNCHANGED proc
       ELSE \/ /\ ReturnFrom([run EXCEPT !.quorumValidated = TRUE],
                             FetchError("getting tick data"))
               /\ UNCHANGED proc
            \/ /\ proc.body = <<>>
               /\ ReturnFrom([run EXCEPT !.quorumValidated = TRUE],
                             ValidationError("validating tick data"))
               /\ UNCHANGED proc
            \/ /\ ReturnFrom([run EXCEPT !.quorumValidated = TRUE, !.tickValidated = TRUE],
                             FetchError("getting tick transactions"))
               /\ UNCHANGED proc
            \/ \E digests \in TickBodies(run.tick),
                  transactions \in SeqsUpTo(TransactionsOf(run.tick), MaxTxs) :
                  /\ proc.body # <<>> =>
                        /\ digests = proc.body[1].digests
                        /\ transactions = proc.body[1].transactions
                  /\ LET r == Validate(transactions, digests) IN
                     IF ~TxValidationPassed(r)
                     THEN /\ ReturnFrom([run EXCEPT !.quorumValidated = TRUE,
                                                       !.tickValidated = TRUE],
                                       ValidationError(r.err))
                          /\ UNCHANGED proc
                     ELSE /\ pc' = "storeQuorum"
                          /\ run' = [run EXCEPT !.quorumValidated = TRUE,
                                                !.tickValidated = TRUE,
                                                !.txValidated = (r.err = "nil"),
                                                !.tickData = digests,
                                                !.validTxs = r.txs]
                          /\ proc' = [proc EXCEPT !.body =
                                         <<[digests |-> digests, transactions |-> r.txs]>>]
    /\ obs' = NoObservation
    /\ UNCHANGED db
    /\ UNCHANGED <<pageVars, txVars>>

\* lines 105-108: quorum.Store
StoreQuorum ==
    /\ pc = "storeQuorum"
    /\ \E ok \in BOOLEAN :
          IF ok
          THEN /\ db' = SetQuorumTickData(db, run.tick)
               /\ pc' = "storeTickData"
               /\ UNCHANGED run
          ELSE /\ Return(StoreError("storing quorum votes"))
               /\ UNCHANGED db
    /\ obs' = NoObservation
    /\ UNCHANGED proc
    /\ UNCHANGED <<pageVars, txVars>>

\* lines 112-115: tick.Store
StoreTickData ==
    /\ pc = "storeTickData"
    /\ \E ok \in BOOLEAN :
          IF ok
          THEN /\ db' = SetTickData(db, run.tick, TickDataToProto(run.tick, run.tickData))
               /\ pc' = "storeTickTransactions"
               /\ UNCHANGED run
          ELSE /\ Return(StoreError("storing tick data"))
               /\ UNCHANGED db
    /\ obs' = NoObservation
    /\ UNCHANGED proc
    /\ UNCHANGED <<pageVars, txVars>>

\* the identities of the map storeTransferTransactions ranges over
TransferIdentities(validTxs) ==
    LET txsPerIdentity ==
            createTransferTransactionsIdentityMap(removeNonTransferTransactionsAndConvert(validTxs))
    IN  {id \in Identities : txsPerIdentity[id] # <<>>}

\* tx.Store, first step: storeTickTransactions commits all the transactions
\* in one batch; storeTransferTransactions then builds its map
StoreTickTransactions ==
    /\ pc = "storeTickTransactions"
    /\ \E ok \in BOOLEAN :
          IF ok
          THEN /\ db' = SetTransactions(db, run.validTxs)
               /\ pc' = "storeTransferTransactions"
               /\ run' = [run EXCEPT !.pending = TransferIdentities(run.validTxs)]
          ELSE /\ Return(StoreError("storing tick transactions"))
               /\ UNCHANGED db
    /\ obs' = NoObservation
    /\ UNCHANGED proc
    /\ UNCHANGED <<pageVars, txVars>>

\* tx.Store, second step: one iteration of the loop over the map of
\* storeTransferTransactions, in the order the map yields its keys; every
\* iteration is a write of its own
StoreTransferTransactions ==
    /\ pc = "storeTransferTransactions"
    /\ run.pending # {}
    /\ \E id \in run.pending, ok \in BOOLEAN :
          IF ok
          THEN LET txsPerIdentity ==
                       createTransferTransactionsIdentityMap(
                           removeNonTransferTransactionsAndConvert(run.validTxs))
               IN  /\ db' = PutTransferTransactionsPerTick(db, id, run.tick, txsPerIdentity[id])
                   /\ run' = [run EXCEPT !.pending = @ \ {id}]
                   /\ UNCHANGED pc
          ELSE /\ Return(StoreError("storing transfer transactions"))
               /\ UNCHANGED db
    /\ obs' = NoObservation
    /\ UNCHANGED proc
    /\ UNCHANGED <<pageVars, txVars>>

\* tx.Store, third step: StoreAssetTransactions commits the asset index
\* entries of the tick in one batch; ValidateTick returns nil
StoreAssetTransactions ==
    /\ pc = "storeTransferTransactions"
    /\ run.pending = {}
    /\ LET transactionWithAssetPayloads ==
               removeNonTransactionWithAssetPayloadsAndConvert(run.validTxs)
       IN  IF transactionWithAssetPayloads.err # "nil"
           THEN /\ Return(StoreError("removing non transactions with asset payload"))
                /\ UNCHANGED db
           ELSE \E ok \in BOOLEAN :
                   IF ok
                   THEN /\ db' = PutAssetTransactionsPerTickBatch(db,
                                     createIdentityMap(transactionWithAssetPayloads.txs),
                                     run.tick)
                        /\ Return(Nil)
                   ELSE /\ Return(StoreError("storing asset transfer transactions"))
                        /\ UNCHANGED db
    /\ obs' = NoObservation
    /\ UNCHANGED proc
    /\ UNCHANGED <<pageVars, txVars>>

\* the outer loop after a fetch failure or a store failure: the tick is
\* retried
RetryTick ==
    /\ pc = "returned"
    /\ run.err.kind \in {"Fetch", "Store"}
    /\ pc' = "idle"
    /\ run' = NoRun
    /\ obs' = NoObservation
    /\ UNCHANGED <<db, proc>>
    /\ UNCHANGED <<pageVars, txVars>>

\* the outer loop after a validation failure: the tick is skipped and the
\* pipeline advances
SkipTick ==
    /\ pc = "returned"
    /\ run.err.kind = "Validation"
    /\ pc' = "idle"
    /\ proc' = [proc EXCEPT !.next = @ + 1, !.skipped = @ \cup {run.tick},
                             !.votes = <<>>, !.body = <<>>]
    /\ run' = NoRun
    /\ obs' = NoObservation
    /\ UNCHANGED db
    /\ UNCHANGED <<pageVars, txVars>>

\* the outer loop after ValidateTick returned nil: SetLastProcessedTick
\* commits the batch of the two last-processed-tick keys
AdvanceLastProcessedTick ==
    /\ pc = "returned"
    /\ run.err = Nil
    /\ \E ok \in BOOLEAN :
          IF ok
          THEN /\ db' = SetLastProcessedTickBatch(db, run.tick, run.epoch)
               /\ pc' = "setLastProcessedTick"
               /\ UNCHANGED run
          ELSE /\ pc' = "idle"
               /\ run' = NoRun
               /\ UNCHANGED db
    /\ obs' = NoObservation
    /\ UNCHANGED proc
    /\ UNCHANGED <<pageVars, txVars>>

\* SetLastProcessedTick goes on: the processed-tick intervals of the epoch
\* are written on their own; the tick is then reported processed
ExtendProcessedTickInterval ==
    /\ pc = "setLastProcessedTick"
    /\ \E ok \in BOOLEAN :
          IF ok
          THEN /\ db' = SetLastProcessedTickIntervals(db, run.tick, run.epoch)
               /\ proc' = [proc EXCEPT !.next = @ + 1, !.processed = @ \cup {run.tick},
                                        !.votes = <<>>, !.body = <<>>]
          ELSE UNCHANGED <<db, proc>>
    /\ pc' = "idle"
    /\ run' = NoRun
    /\ obs' = NoObservation
    /\ UNCHANGED <<pageVars, txVars>>

\* a reader reads the records of the tick that is being indexed; what it saw
\* is kept until the pipeline takes its next step
ReadTick ==
    /\ pc \notin {"idle", "returned", "setLastProcessedTick"}
    /\ obs' = [seen |-> TRUE, tick |-> run.tick, view |-> TickRecords(db, run.tick)]
    /\ UNCHANGED <<db, pc, run, proc>>
    /\ UNCHANGED <<pageVars, txVars>>

Next ==
    \/ StartValidateTick
    \/ ResolveComputors
    \/ ValidateQuorumTickAndTransactions
    \/ StoreQuorum
    \/ StoreTickData
    \/ StoreTickTransactions
    \/ StoreTransferTransactions
    \/ StoreAssetTransactions
    \/ RetryTick
    \/ SkipTick
    \/ AdvanceLastProcessedTick
    \/ ExtendProcessedTickInterval
    \/ ReadTick

Spec == Init /\ [][Next]_vars

----------------------------------------------------------------------------
(* SpecStore and SpecStoreQx: tx.Store applied to the transactions          *)
(* Validate returned for a tick, in the version of models.go (third step    *)
(* StoreAssetTransactions) and in the version of validator.go (third step   *)
(* StoreQxAssetTransfers)                                                   *)

MaxStoreTxs == 2

\* the input of a transaction of the given type, whole or cut short
InputOf(inputType, whole) ==
    IF inputType = 1
    THEN (IF whole THEN SendManyInput ELSE ShortSendManyInput)
    ELSE (IF whole THEN AssetInput ELSE ShortAssetInput)

ShapedBody(dest, amount, inputType, whole) ==
    [kind |-> "shaped", tick |-> 1, SourceId |-> "A", DestId |-> dest, Amount |-> amount,
     InputType |-> inputType, Input |-> InputOf(inputType, whole)]

\* the transactions of the tick: every destination kind with every input
\* type, with a payload that decodes and with one that does not; an input
\* type the exchange contract does not decode; transfers of A to itself, of
\* no amount and of a negative amount; a transaction of input type 2 that
\* carries an amount and is not sent to the exchange contract
StoreBodies ==
    {ShapedBody(dest, IF inputType = 0 THEN 100 ELSE 0, inputType, whole) :
        dest \in {"B", SMART_CONTRACT_QX, SMART_CONTRACT_QUTIL},
        inputType \in 0..2, whole \in BOOLEAN}
    \cup {ShapedBody(SMART_CONTRACT_QX, 0, 3, TRUE),
          ShapedBody("A", 100, 0, TRUE),
          ShapedBody("B", 0, 0, TRUE),
          ShapedBody("B", -1, 0, TRUE),
          ShapedBody("C", 100, 2, TRUE)}

StoreTransactions == [body : StoreBodies, sig : {"valid"}]

\* Validate returned the transactions; Store starts
InitStore ==
    /\ tvIn = [digests |-> <<>>, transactions |-> <<>>]
    /\ tvOut \in [done : {TRUE}, err : {"nil"},
                  txs : SeqsUpTo(StoreTransactions, MaxStoreTxs)]
    /\ db = EmptyStore
    /\ pc = "storeTickTransactions"
    /\ run = [NoRun EXCEPT !.tick = 1, !.epoch = 1, !.validTxs = tvOut.txs,
                           !.quorumValidated = TRUE, !.tickValidated = TRUE,
                           !.txValidated = TRUE]
    /\ proc = [next |-> 1, processed |-> {}, skipped |-> {}, votes |-> <<>>, body |-> <<>>]
    /\ obs = NoObservation
    /\ DecodeIdle
    /\ ApiIdle
    /\ PageIdle

\* validator.go: the transactions of input type 2 whose input decodes
removeNonQxAssetTransferTransactionsAndConvert(transactions) ==
    LET decoded == [i \in 1..Len(transactions) |->
                       [Transaction |-> transactions[i],
                        input |-> UnmarshalBinary(TxFields(transactions[i]).Input)]]
        kept == SelectSeq(decoded, LAMBDA t : /\ TxFields(t.Transaction).InputType = 2
                                              /\ t.input.err = "nil")
    IN  [i \in 1..Len(kept) |->
            [Transaction |-> kept[i].Transaction,
             TransferPayload |-> GetAssetTransfer(kept[i].input)]]

\* the asset transfer of a transaction, as it is put in the lists
QxAssetTransferOf(t) ==
    [AssetIssuer |-> <<t.TransferPayload.Issuer>>,
     AssetName |-> t.TransferPayload.AssetName,
     SourceId |-> TxFields(t.Transaction).SourceId,
     DestId |-> t.TransferPayload.DestId,
     Amount |-> t.TransferPayload.Amount,
     TxId |-> TxId(t.Transaction)]

\* the list of an identity: each transfer is appended to the list of its
\* destination and then to the list of its source
RECURSIVE QxTransferListOf(_, _, _)
QxTransferListOf(txs, i, identity) ==
    IF i > Len(txs) THEN <<>>
    ELSE LET assetTransfer == QxAssetTransferOf(txs[i]) IN
         (IF assetTransfer.DestId = identity THEN <<assetTransfer>> ELSE <<>>)
            \o (IF assetTransfer.SourceId = identity THEN <<assetTransfer>> ELSE <<>>)
            \o QxTransferListOf(txs, i + 1, identity)

createQxAssetTransfersIdentityMap(txs) ==
    [identity \in Identities |-> QxTransferListOf(txs, 1, identity)]

\* the transfers of one identity, per asset id
createQxAssetTransferAssetIdMap(transfers) ==
    [assetId \in AssetIds |->
        LET ofAsset == SelectSeq(transfers,
                                 LAMBDA t : t.AssetIssuer \o t.AssetName = assetId)
        IN  [i \in 1..Len(ofAsset) |->
                [SourceId |-> ofAsset[i].SourceId, DestId |-> ofAsset[i].DestId,
                 Amount |-> ofAsset[i].Amount, TxId |-> ofAsset[i].TxId]]]

\* the lists StoreQxAssetTransfers puts, by (identity, asset id)
QxAssetTransfersPerKey(transactions) ==
    LET perIdentity == createQxAssetTransfersIdentityMap(
                           removeNonQxAssetTransferTransactionsAndConvert(transactions))
    IN  [k \in Identities \X AssetIds |->
            createQxAssetTransferAssetIdMap(perIdentity[k[1]])[k[2]]]

\* the puts of the given keys
PutQxAssetTransfersPerTick(d, perKey, keys, tickNumber) ==
    [d EXCEPT !.assets =
        [k \in DOMAIN @ |->
            IF k[3] = tickNumber /\ <<k[1], k[2]>> \in keys
            THEN <<perKey[<<k[1], k[2]>>]>>
            ELSE @[k]]]

\* validator.go's tx.Store, third step: StoreQxAssetTransfers puts one list
\* per (identity, asset id), one write each, in the order the maps yield
\* their keys; a put that fails leaves the ones before it written
StoreQxAssetTransfers ==
    /\ pc = "storeTransferTransactions"
    /\ run.pending = {}
    /\ LET perKey == QxAssetTransfersPerKey(run.validTxs)
           keys == {k \in DOMAIN perKey : perKey[k] # <<>>}
       IN  \E written \in SUBSET keys :
              /\ db' = PutQxAssetTransfersPerTick(db, perKey, written, run.tick)
              /\ IF written = keys
                 THEN Return(Nil)
                 ELSE Return(StoreError("storing asset transfer transactions"))
    /\ obs' = NoObservation
    /\ UNCHANGED proc
    /\ UNCHANGED <<pageVars, txVars>>

NextStore == StoreTickTransactions \/ StoreTransferTransactions \/ StoreAssetTransactions

NextStoreQx == StoreTickTransactions \/ StoreTransferTransactions \/ StoreQxAssetTransfers

SpecStore == InitStore /\ [][NextStore]_vars

SpecStoreQx == InitStore /\ [][NextStoreQx]_vars

----------------------------------------------------------------------------
(* SpecReplay: tx.Store and SetLastProcessedTick of a tick, and the same    *)
(* calls made again with the same tick, epoch and transactions              *)

\* the store steps of the tick start again, after a failure or after the
\* tick was reported processed
ReplayStore ==
    /\ pc = "idle"
    /\ pc' = "storeTickTransactions"
    /\ run' = [NoRun EXCEPT !.tick = 1, !.epoch = 1, !.validTxs = tvOut.txs,
                            !.quorumValidated = TRUE, !.tickValidated = TRUE,
                            !.txValidated = TRUE]
    /\ proc' = [proc EXCEPT !.next = 1]
    /\ obs' = NoObservation
    /\ UNCHANGED db
    /\ UNCHANGED <<pageVars, txVars>>

NextReplay ==
    \/ StoreTickTransactions
    \/ StoreTransferTransactions
    \/ StoreAssetTransactions
    \/ RetryTick
    \/ AdvanceLastProcessedTick
    \/ ExtendProcessedTickInterval
    \/ ReplayStore

SpecReplay == InitStore /\ [][NextReplay]_vars

----------------------------------------------------------------------------
(***************************************************************************)
(* SpecOrder: tx.Validate on the digest list of a tick body and on the     *)
(* transactions the node returned, in the order the node returned them,    *)
(* followed by tx.Store on the transactions it returned.                   *)
(***************************************************************************)

\* a transfer of A to B, a transfer of A to itself, and an asset transfer
OrderTransactions ==
    [body : {ShapedBody("B", 100, 0, TRUE), ShapedBody("A", 100, 0, TRUE),
             ShapedBody(SMART_CONTRACT_QX, 0, 2, TRUE)},
     sig : {"valid"}]

\* the digest slots of a tick body that lists distinct transactions
OrderBodies ==
    {[i \in 1..NumSlots |-> IF i <= Len(txs) THEN getDigestFromTransaction(txs[i])
                                              ELSE emptyTxDigest] :
        txs \in {t \in SeqsUpTo(OrderTransactions, MaxTxs) :
                    IsInjective(t) /\ Len(t) <= NumSlots}}

InitOrder ==
    /\ tvIn \in [digests : OrderBodies, transactions : SeqsUpTo(OrderTransactions, MaxTxs)]
    /\ tvOut = NotValidated
    /\ DecodeIdle
    /\ ApiIdle
    /\ PageIdle
    /\ PipeIdle

\* ValidateTick passes the transactions tx.Validate returned to tx.Store
StoreValidTransactions ==
    /\ pc = "idle"
    /\ tvOut.done
    /\ tvOut.err = "nil"
    /\ pc' = "storeTickTransactions"
    /\ run' = [NoRun EXCEPT !.tick = 1, !.epoch = 1, !.validTxs = tvOut.txs,
                            !.quorumValidated = TRUE, !.tickValidated = TRUE,
                            !.txValidated = TRUE]
    /\ UNCHANGED <<db, proc, obs>>
    /\ UNCHANGED <<pageVars, txVars>>

NextOrder ==
    \/ ApplyValidate
    \/ StoreValidTransactions
    \/ StoreTickTransactions
    \/ StoreTransferTransactions
    \/ StoreAssetTransactions

SpecOrder == InitOrder /\ [][NextOrder]_vars

----------------------------------------------------------------------------
(* SpecAtm: AssetTransferMigration, run after run, over a store the         *)
(* pipeline filled                                                          *)

\* the transactions of tick t, as the pipeline stored them: an asset
\* transfer sent to the exchange contract, a native transfer, and a
\* transaction of input type 2 whose input does not decode
AtmTransfer(t) ==
    [body |-> [ShapedBody(SMART_CONTRACT_QX, 0, 2, TRUE) EXCEPT !.tick = t], sig |-> "valid"]

AtmNative(t) ==
    [body |-> [ShapedBody("B", 100, 0, TRUE) EXCEPT !.tick = t], sig |-> "valid"]

AtmUndecodable(t) ==
    [body |-> [ShapedBody(SMART_CONTRACT_QX, 0, 2, FALSE) EXCEPT !.tick = t], sig |-> "valid"]

\* what a tick of the store holds: <<>> for no tick data, <<txs>> for the
\* tick data of the transactions txs
AtmTickContents(t) ==
    {<<>>, <<<<>>>>, <<<<AtmTransfer(t)>>>>, <<<<AtmNative(t)>>>>,
     <<<<AtmUndecodable(t)>>>>, <<<<AtmNative(t), AtmTransfer(t)>>>>}

\* the store after tick.Store and storeTickTransactions of the ticks
RECURSIVE StoreOfTicks(_, _)
StoreOfTicks(contents, t) ==
    IF t = 0 THEN EmptyStore
    ELSE LET d == StoreOfTicks(contents, t - 1) IN
         IF contents[t] = <<>> THEN d
         ELSE SetTransactions(
                  SetTickData(d, t, TickDataToProto(t, [i \in 1..Len(contents[t][1]) |->
                                                          getDigestFromTransaction(contents[t][1][i])])),
                  contents[t][1])

\* a list an earlier release of the indexer left under a key of the index
StaleAssetList ==
    <<[SourceId |-> "A", DestId |-> "B", Amount |-> 1, TxId |-> [id |-> emptyTxDigest]]>>

StaleIndex == [k \in Identities \X AssetIds \X Ticks |-> IF k[1] = "B" THEN <<StaleAssetList>> ELSE <<>>]

NoAssetIndex == [k \in Identities \X AssetIds \X Ticks |-> <<>>]

\* (mutant) the prefix is not cleared
KeepQxIdentityAssetTransfers(d) == d

\* ClearKeysByPrefix(QxIdentityAssetTransfers): DeleteRange over the prefix
ClearQxIdentityAssetTransfers(d) == [d EXCEPT !.assets = NoAssetIndex]

\* FindFirstTickNumber: the tick of the first key from TickData|0 on. With
\* no tick data key the first key found belongs to a later prefix, whose
\* bytes are read as a tick number, or there is none and an error returns:
\* any tick stands for the bytes read (firstTick 0 stands for the error)
FindFirstTickNumber(d) ==
    LET stored == {t \in Ticks : d.tickData[t] # <<>>} IN
    IF stored = {} THEN 0..NumTicks
    ELSE {CHOOSE t \in stored : \A u \in stored : t <= u}

GetTransaction(d, txID) ==
    LET found == {tx \in d.tickTx : TxId(tx) = txID} IN
    IF found = {} THEN [err |-> "ErrNotFound"]
    ELSE [err |-> "nil", tx |-> CHOOSE tx \in found : TRUE]

GetTickTransactions(d, tickNumber) ==
    IF d.tickData[tickNumber] = <<>> THEN [err |-> "ErrNotFound", txs |-> <<>>]
    ELSE LET ids == d.tickData[tickNumber][1].TransactionIds IN
         IF \E i \in 1..Len(ids) : GetTransaction(d, ids[i]).err # "nil"
         THEN [err |-> "ErrNotFound", txs |-> <<>>]
         ELSE [err |-> "nil", txs |-> [i \in 1..Len(ids) |-> GetTransaction(d, ids[i]).tx]]

\* the tick number GetLastProcessedTick reads from the bytes
\* SetLastProcessedTick wrote for the last processed tick of the store
LastTickOf(d) ==
    IF d.lastProcessedTick.TickNumber = 0 THEN [err |-> "ErrNotFound"]
    ELSE GetLastProcessedTick(PutLastProcessedTick(NoLpt, d.lastProcessedTick))

ReturnFromAtm(a, err) == [a EXCEPT !.pc = "returned", !.err = err]

\* a store with ticks processed up to a last processed tick, the tick after
\* it perhaps half stored, with or without quorum data and an older index;
\* no tick was processed yet when processed is 0
InitAtm ==
    /\ \E contents \in [Ticks -> UNION {AtmTickContents(t) : t \in Ticks}],
          processed \in 0..NumTicks, stale \in BOOLEAN :
          /\ \A t \in Ticks : contents[t] \in AtmTickContents(t)
          /\ \A t \in Ticks : t > processed + 1 => contents[t] = <<>>
          /\ db = [StoreOfTicks(contents, NumTicks)
                      EXCEPT !.lastProcessedTick =
                                 [TickNumber |-> processed,
                                  Epoch |-> IF processed = 0 THEN 0 ELSE 1],
                             !.lastProcessedTickPerEpoch = [e \in Epochs |-> processed],
                             !.quorumData = 1..processed,
                             !.assets = IF stale THEN StaleIndex ELSE NoAssetIndex]
    /\ atm = NoAtm
    /\ pc = "idle"
    /\ run = NoRun
    /\ proc = [next |-> 1, processed |-> {}, skipped |-> {}, votes |-> <<>>, body |-> <<>>]
    /\ obs = NoObservation
    /\ tvIn = [digests |-> <<>>, transactions |-> <<>>]
    /\ tvOut = NotValidated
    /\ DecodeIdle
    /\ VtIdle
    /\ AccIdle
    /\ LptIdle
    /\ MigIdle
    /\ RpcIdle
    /\ PageIdle

\* the migration starts: the prefix is cleared, the processed processed tick and
\* the first stored tick are read
StartAssetTransferMigration ==
    /\ atm.pc = "stopped"
    /\ atm.runs < MaxStartups
    /\ \E cleared \in {"cleared", "not cleared", "cleared, count failed"},
          getErr \in BOOLEAN, firstTick \in FindFirstTickNumber(db) :
        LET a0 == [atm EXCEPT !.runs = @ + 1, !.err = "nil", !.skipped = {},
                              !.tickNumber = 0, !.lastTick = 0]
            lastTick == LastTickOf(db)
        IN  IF cleared = "not cleared"
            THEN /\ atm' = ReturnFromAtm(a0, "deleting asset transfers")
                 /\ UNCHANGED db
            ELSE /\ db' = ClearQxIdentityAssetTransfers(db)
                 /\ atm' =
                      IF cleared # "cleared"
                      THEN ReturnFromAtm(a0, "deleting asset transfers")
                      ELSE IF getErr \/ lastTick.err # "nil" \/ firstTick = 0
                           THEN ReturnFromAtm(a0, "getting last processed tick")
                           ELSE [a0 EXCEPT !.pc = "scan", !.tickNumber = firstTick,
                                           !.lastTick = LittleEndianUint(lastTick.TickNumber)]
    /\ UNCHANGED <<pc, run, proc, obs>>
    /\ UNCHANGED <<tvIn, tvOut, decIn, decOut, lptKv, mig, rpc, vt, acc>>
    /\ UNCHANGED pageVars

\* one iteration of the loop over the ticks: a tick that is not found and a
\* tick whose read fails are passed over; the lists of the tick are put one
\* by one, and a put that fails ends the migration
MigrateTick ==
    /\ atm.pc = "scan"
    /\ atm.tickNumber <= atm.lastTick
    /\ \E readErr \in BOOLEAN :
        LET tickTransactions == GetTickTransactions(db, atm.tickNumber) IN
        IF readErr
        THEN /\ atm' = [atm EXCEPT !.tickNumber = @ + 1, !.skipped = @ \cup {atm.tickNumber}]
             /\ UNCHANGED db
        ELSE IF tickTransactions.err = "ErrNotFound"
        THEN /\ atm' = [atm EXCEPT !.tickNumber = @ + 1]
             /\ UNCHANGED db
        ELSE LET perKey == QxAssetTransfersPerKey(tickTransactions.txs)
                 keys == {k \in DOMAIN perKey : perKey[k] # <<>>}
             IN  \E written \in SUBSET keys :
                    /\ db' = PutQxAssetTransfersPerTick(db, perKey, written, atm.tickNumber)
                    /\ atm' = IF written = keys
                              THEN [atm EXCEPT !.tickNumber = @ + 1]
                              ELSE ReturnFromAtm(atm, "failed to proces tick")
    /\ UNCHANGED <<pc, run, proc, obs>>
    /\ UNCHANGED <<tvIn, tvOut, decIn, decOut, lptKv, mig, rpc, vt, acc>>
    /\ UNCHANGED pageVars

\* after the loop the keys of the prefix are counted
FinishAssetTransferMigration ==
    /\ atm.pc = "scan"
    /\ atm.tickNumber > atm.lastTick
    /\ \E countErr \in BOOLEAN :
        atm' = ReturnFromAtm(atm, IF countErr THEN "cant count keys" ELSE "nil")
    /\ UNCHANGED pipeVars
    /\ UNCHANGED <<tvIn, tvOut, decIn, decOut, lptKv, mig, rpc, vt, acc>>
    /\ UNCHANGED pageVars

\* the process ends, after the migration returned or in the middle of it
StopAssetTransferMigration ==
    /\ atm.pc \in {"scan", "returned"}
    /\ atm' = [atm EXCEPT !.pc = "stopped",
                           !.stoppedPartWay = @ \/ atm.pc = "scan"]
    /\ UNCHANGED pipeVars
    /\ UNCHANGED <<tvIn, tvOut, decIn, decOut, lptKv, mig, rpc, vt, acc>>
    /\ UNCHANGED pageVars

NextAtm ==
    \/ StartAssetTransferMigration
    \/ MigrateTick
    \/ FinishAssetTransferMigration
    \/ StopAssetTransferMigration

SpecAtm == InitAtm /\ [][NextAtm]_vars

\* PerformMigrations on a store without a version key, the registry holding
\* the one migration: the version key after it returned
VersionAfterPerformMigrations(err) ==
    IF MigrateFailed(err) THEN <<>> ELSE PutLittleEndian(migrationIndex(0), MigrationVersionSize)

----------------------------------------------------------------------------
(* Claims about the pipeline, checked under Spec                            *)

\* the transactions whose ids the stored tick body of a view lists
ListedTransactions(view, T) ==
    IF view.tickData = <<>> THEN {}
    ELSE {tx \in TransactionsOf(T) : TxId(tx) \in Range(view.tickData[1].TransactionIds)}

\* every record of tick T is in the view: the tick body, the transaction of
\* every id it lists, the transfer record of the source and of the
\* destination of every listed transaction with an amount, and the asset
\* index list of every participant of every listed classified transaction
AllPresent(view, T) ==
    /\ view.tickData # <<>>
    /\ \A tx \in ListedTransactions(view, T) :
          /\ tx \in view.tickTx
          /\ IsTransfer(tx) =>
                /\ view.transfers[TxFields(tx).SourceId] # <<>>
                /\ view.transfers[TxFields(tx).DestId] # <<>>
          /\ IsClassified(tx) =>
                LET d == FindTransactionIdParticipantsAndCurrency(ParseAssetTransaction(tx)) IN
                \A p \in Range(d.Identities) :
                    view.assets[<<p, d.Currency.AssetIssuer \o d.Currency.AssetName>>] # <<>>

NonePresent(view) == view = NoRecords

\* C1: a reader running beside the indexing of tick T never sees some but not
\* all of T's records: what it reads holds either all of them or none.
C1_AllOrNothingVisible ==
    obs.seen => (NonePresent(obs.view) \/ AllPresent(obs.view, obs.tick))

\* the store steps that persist the records of a tick
PersistSteps ==
    {"storing tick data", "storing tick transactions", "storing transfer transactions",
     "storing asset transfer transactions"}

\* C2: when a store step fails while the records of tick T are persisted, the
\* records of T in the store are what they were before the run began.
C2_FailureLeavesNothing ==
    (pc = "returned" /\ run.err.kind = "Store" /\ run.err.at \in PersistSteps) =>
        TickRecords(db, run.tick) = run.before

StoreStages ==
    {"storeQuorum", "storeTickData", "storeTickTransactions", "storeTransferTransactions"}

\* C3: a record of tick T is written only by a store step of a run of
\* ValidateTick for T, a run stands at a store step only after quorum
\* validation, tick validation and transaction validation succeeded in it,
\* and a run that ended on a transaction count mismatch has left the records
\* of T as they were.
C3_WritesAfterValidation ==
    /\ [](pc \in StoreStages =>
            (run.quorumValidated /\ run.tickValidated /\ run.txValidated))
    /\ [][\A T \in Ticks :
            TickRecords(db', T) # TickRecords(db, T) => (pc \in StoreStages /\ run.tick = T)]_vars
    /\ []((pc = "returned" /\ run.err = ValidationError("TxCountMismatch")) =>
            TickRecords(db, run.tick) = run.before)

\* a run has returned nil after it validated two transactions and wrote the
\* records of its tick
C3_Witness ==
    /\ pc = "returned"
    /\ run.err = Nil
    /\ run.quorumValidated /\ run.tickValidated /\ run.txValidated
    /\ run.before = NoRecords
    /\ AllPresent(TickRecords(db, run.tick), run.tick)
    /\ Cardinality(TickRecords(db, run.tick).tickTx) = 2

\* C4: every tick T <= LastProcessedTick that was reported processed, and the
\* tick LastProcessedTick was set to, is fully indexed.
C4_ProcessedTicksIndexed ==
    \A T \in Ticks :
        (T <= db.lastProcessedTick.TickNumber
            /\ (T \in proc.processed \/ T = db.lastProcessedTick.TickNumber))
          => AllPresent(TickRecords(db, T), T)

----------------------------------------------------------------------------
(* Claims about the reverse reader, checked under SpecPage                  *)

\* what the query parameters mean: endTick 0 stands for the last processed
\* tick, limit 0 for 1000
QueryEndTick(endTick) == IF endTick = 0 THEN plpt ELSE endTick

QueryLimit(limit) == IF limit = 0 THEN 1000 ELSE limit

\* the qualifying entries of the index for the client's query, newest tick first
Qualifying ==
    {<<t, k>> \in PageTicks \X (1..MaxPerTick) :
        /\ k <= Len(aidx[t])
        /\ t <= QueryEndTick(q.endTick)
        /\ (q.includeFailed \/ aidx[t][k])}

GotIds == [i \in 1..Len(got) |-> <<got[i].tick, got[i].pos>>]

NoRepeat(s) == \A i, j \in 1..Len(s) : i # j => s[i] # s[j]

\* C5: with limit >= 1, the concatenation of the pages a cursor-following
\* client receives never repeats a transaction, is in non-increasing tick
\* order, and once the client has received the empty page it holds every
\* qualifying transaction with tick <= endTick.
C5_PagesExactlyOnce ==
    q.limit >= 1 =>
        /\ NoRepeat(GotIds)
        /\ \A i, j \in 1..Len(got) : i < j => got[i].tick >= got[j].tick
        /\ ClientDone => {GotIds[i] : i \in 1..Len(got)} = Qualifying

\* C6: with limit >= 1, every call returns a cursor strictly after the call's
\* own starting position in scan order: a lower tick, or the same tick with a
\* higher index.
C6_CursorAdvances ==
    (last.called /\ q.limit >= 1) =>
        \/ last.res.nextEndTick < QueryEndTick(last.endTick)
        \/ /\ last.res.nextEndTick = QueryEndTick(last.endTick)
           /\ last.res.nextTxnIndexStart > last.txnIndexStart

\* C7: a call that stopped on the limit at index i of tick T with entries of
\* T still unread returns the cursor (T, i+1); a call whose last tick read T
\* was exhausted returns (T-1, 0).
C7_CursorValue ==
    (last.called /\ last.res.visited /\ ~last.res.skipped) =>
        IF last.res.returned /\ last.res.stopIndex < last.res.lastLen - 1
        THEN /\ last.res.nextEndTick = last.res.lastTick
             /\ last.res.nextTxnIndexStart = last.res.stopIndex + 1
        ELSE /\ last.res.nextEndTick = last.res.lastTick - 1
             /\ last.res.nextTxnIndexStart = 0

\* C8: every page holds at most limit transactions (1000 when the limit is
\* omitted), each of them listed in the index at a tick <= endTick, and
\* without includeFailed none of them has moneyFlew = false.
C8_PageSound ==
    last.called =>
        /\ Len(last.res.transactions) <= QueryLimit(q.limit)
        /\ \A i \in 1..Len(last.res.transactions) :
              LET e == last.res.transactions[i] IN
              /\ e.tick \in PageTicks
              /\ e.tick <= QueryEndTick(last.endTick)
              /\ e.pos \in 1..Len(aidx[e.tick])
              /\ aidx[e.tick][e.pos] = e.moneyFlew
              /\ (~q.includeFailed => e.moneyFlew)

\* a full page was returned while a failed transaction was filtered out and
\* an entry above endTick was left out
C8_Witness ==
    /\ last.called
    /\ ~q.includeFailed
    /\ q.limit >= 1
    /\ Len(last.res.transactions) = q.limit
    /\ \E t \in PageTicks : t > QueryEndTick(last.endTick) /\ aidx[t] # <<>>
    /\ \E t \in PageTicks : /\ t <= QueryEndTick(last.endTick)
                            /\ \E k \in 1..Len(aidx[t]) : ~aidx[t][k]

ReturnValue(res) ==
    <<res.transactions, res.nextEndTick, res.nextTxnIndexStart, res.lastProcessedTick>>

\* C9: a call with endTick = 0 returns what the call with endTick = the last
\* processed tick returns, and a call with limit = 0 returns what the call
\* with limit = 1000 returns.
C9_Defaults ==
    last.called =>
        /\ last.endTick = 0 =>
              ReturnValue(last.res) =
                 ReturnValue(GetIdetityAssetTransactionsFromEnd(aidx, plpt, q.includeFailed,
                                 plpt, last.txnIndexStart, q.limit))
        /\ q.limit = 0 =>
              ReturnValue(last.res) =
                 ReturnValue(GetIdetityAssetTransactionsFromEnd(aidx, plpt, q.includeFailed,
                                 last.endTick, last.txnIndexStart, 1000))

\* a call with both parameters omitted returned several transactions
C9_Witness ==
    /\ last.called
    /\ last.endTick = 0
    /\ q.limit = 0
    /\ Len(last.res.transactions) >= 2

----------------------------------------------------------------------------
(* Claims about tx.Validate, checked under SpecTx                           *)

\* the set D of the distinct non-zero digests the tick body lists
DistinctNonZero ==
    {d \in {tvIn.digests[i] : i \in 1..Len(tvIn.digests)} : d # emptyTxDigest}

\* C10 as stated: Validate fails with the count mismatch whenever the number
\* of transactions differs from the size of D, for every size of D, zero
\* included.
C10_CountMismatchAlways ==
    (tvOut.done /\ Len(tvIn.transactions) # Cardinality(DistinctNonZero)) =>
        tvOut.err = "TxCountMismatch"

\* C10 amended: Validate fails with the count mismatch whenever D is not
\* empty and the number of transactions differs from the size of D; when D is
\* empty it succeeds with an empty list, whatever the node returned.
C10_CountMismatchNonEmpty ==
    tvOut.done =>
        /\ (DistinctNonZero # {} /\ Len(tvIn.transactions) # Cardinality(DistinctNonZero))
              => (tvOut.err = "TxCountMismatch" /\ tvOut.txs = <<>>)
        /\ DistinctNonZero = {} => (tvOut.err = "nil" /\ tvOut.txs = <<>>)

\* the tick body lists one digest twice and the node returns as many
\* transactions as slots: D has one element and the counts differ
C10_Witness ==
    /\ tvOut.done
    /\ tvOut.err = "TxCountMismatch"
    /\ Cardinality(DistinctNonZero) = 1
    /\ Len(tvIn.transactions) = NumSlots
    /\ \A i \in 1..Len(tvIn.digests) : tvIn.digests[i] # emptyTxDigest

\* the hash of the marshalled bytes of a transaction, all of them and
\* without the trailing signature
FullHash(tx) == [k12 |-> <<tx.body, tx.sig>>]

TruncatedHash(tx) == [k12 |-> <<tx.body>>]

ValidateSucceeded == tvOut.done /\ tvOut.err = "nil"

\* C11: when Validate succeeds and D is not empty, every digest of D is the
\* digest of exactly one returned transaction.
C11_OneToOne ==
    (ValidateSucceeded /\ DistinctNonZero # {}) =>
        \A d \in DistinctNonZero :
            Cardinality({i \in 1..Len(tvOut.txs) : FullHash(tvOut.txs[i]) = d}) = 1

LoopEntered ==
    /\ DistinctNonZero # {}
    /\ Len(tvIn.transactions) = Cardinality(DistinctNonZero)

\* C13: when a transaction of the list fails the digest lookup or the
\* signature verification, Validate returns an error and no transaction; on
\* success every returned transaction has a signature that verifies.
C13_AllOrNothing ==
    tvOut.done =>
        /\ (LoopEntered
              /\ \E i \in 1..Len(tvIn.transactions) :
                     \/ FullHash(tvIn.transactions[i]) \notin DistinctNonZero
                     \/ tvIn.transactions[i].sig # "valid")
              => (tvOut.err \in {"NotFoundInDigestsMap", "VerifyingTxSignature"}
                     /\ tvOut.txs = <<>>)
        /\ tvOut.err # "nil" => tvOut.txs = <<>>
        /\ tvOut.err = "nil" =>
              \A i \in 1..Len(tvOut.txs) : tvOut.txs[i].sig = "valid"

\* the first transaction of the list passed both checks and the second has a
\* forged signature: Validate returned the signature error and no
\* transaction
C13_Witness ==
    /\ tvOut.done
    /\ LoopEntered
    /\ Len(tvIn.transactions) = 2
    /\ FullHash(tvIn.transactions[1]) \in DistinctNonZero
    /\ tvIn.transactions[1].sig = "valid"
    /\ FullHash(tvIn.transactions[2]) \in DistinctNonZero
    /\ tvIn.transactions[2].sig = "forged"
    /\ tvOut.err = "VerifyingTxSignature"
    /\ tvOut.txs = <<>>

----------------------------------------------------------------------------
(* SpecIntervals: the store's SetLastProcessedTick and                      *)
(* AppendProcessedTickInterval called one after the other, with ticks that  *)
(* ascend                                                                   *)

MaxIntervalTick == 4

IntervalTicks == 1..MaxIntervalTick

\* the highest tick the bookkeeping of the epoch mentions
HighestTick(d, epoch) ==
    LET ptie == d.processedTickIntervals[epoch] IN
    Max({d.lastProcessedTickPerEpoch[epoch]}
            \cup {ptie[i].LastProcessedTick : i \in 1..Len(ptie)})

\* existing.Intervals = append(existing.Intervals, pti), then the write
AppendInterval(d, epoch, pti) ==
    [d EXCEPT !.processedTickIntervals[epoch] = Append(@, pti)]

InitIntervals ==
    /\ PipeIdle
    /\ PageIdle
    /\ TxIdle

\* SetLastProcessedTick, lines 375-401: the batch of the per-epoch key and
\* of the global key is committed, or the call returns an error
CommitLastProcessedTick ==
    /\ pc = "idle"
    /\ \E tickNumber \in IntervalTicks, epoch \in Epochs, ok \in BOOLEAN :
          /\ tickNumber > HighestTick(db, epoch)
          /\ IF ok
             THEN /\ db' = SetLastProcessedTickBatch(db, tickNumber, epoch)
                  /\ pc' = "setLastProcessedTick"
                  /\ run' = [NoRun EXCEPT !.tick = tickNumber, !.epoch = epoch,
                                          !.previousLast = db.lastProcessedTickPerEpoch[epoch]]
             ELSE UNCHANGED <<db, pc, run>>
    /\ UNCHANGED <<proc, obs>>
    /\ UNCHANGED <<pageVars, txVars>>

\* SetLastProcessedTick, lines 403-419: the intervals of the epoch are read,
\* changed and written, or the call returns an error
WriteProcessedTickIntervals ==
    /\ pc = "setLastProcessedTick"
    /\ \E ok \in BOOLEAN :
          IF ok
          THEN db' = SetLastProcessedTickIntervals(db, run.tick, run.epoch)
          ELSE UNCHANGED db
    /\ pc' = "idle"
    /\ run' = NoRun
    /\ UNCHANGED <<proc, obs>>
    /\ UNCHANGED <<pageVars, txVars>>

\* AppendProcessedTickInterval(epoch, pti), with an interval above the ticks
\* of the epoch
AppendProcessedTickInterval ==
    /\ pc = "idle"
    /\ \E epoch \in Epochs, lo \in IntervalTicks, hi \in IntervalTicks, ok \in BOOLEAN :
          /\ HighestTick(db, epoch) < lo
          /\ lo <= hi
          /\ IF ok
             THEN db' = AppendInterval(db, epoch,
                            [InitialProcessedTick |-> lo, LastProcessedTick |-> hi])
             ELSE UNCHANGED db
    /\ UNCHANGED <<pc, run, proc, obs>>
    /\ UNCHANGED <<pageVars, txVars>>

NextIntervals ==
    \/ CommitLastProcessedTick
    \/ WriteProcessedTickIntervals
    \/ AppendProcessedTickInterval

SpecIntervals == InitIntervals /\ [][NextIntervals]_vars

----------------------------------------------------------------------------
(* Claims about tx.Store and the classifier                                 *)

StoreReturnedNil == pc = "returned" /\ run.err = Nil

\* the transactions Store was given
StoredTxs == Range(tvOut.txs)

\* the class the (destination, inputType) of a transaction puts it in
ShapeOf(tx) ==
    LET f == TxFields(tx) IN
    IF f.InputType = 0 THEN "native"
    ELSE IF f.DestId = SMART_CONTRACT_QUTIL /\ f.InputType = 1 THEN "sendMany"
    ELSE IF f.DestId = SMART_CONTRACT_QX /\ f.InputType = 2 THEN "assetTransfer"
    ELSE "notClassified"

\* the payload of a transaction is long enough for its shape
PayloadDecodes(tx) ==
    LET f == TxFields(tx) IN
    CASE ShapeOf(tx) = "sendMany" -> Len(f.Input) >= 40
      [] ShapeOf(tx) = "assetTransfer" -> Len(f.Input) >= 80
      [] OTHER -> TRUE

\* the id of an entry of an asset index list
EntryId(e) == IF "TxId" \in DOMAIN e THEN e.TxId ELSE e

\* the (identity, asset id) pairs whose list of tick T holds the id of tx
IndexedUnder(d, tx, T) ==
    {k \in Identities \X AssetIds :
        /\ d.assets[<<k[1], k[2], T>>] # <<>>
        /\ \E i \in 1..Len(d.assets[<<k[1], k[2], T>>][1]) :
               EntryId(d.assets[<<k[1], k[2], T>>][1][i]) = TxId(tx)}

\* C14: a transaction is classified according to its (destination,
\* inputType), and a transaction of any other combination than the three
\* classified ones is in no list of the per-asset index once the tick is
\* stored.
C14_Partition ==
    /\ \A tx \in StoredTxs :
          ParseAssetTransaction(tx).err = "nil" =>
              /\ ShapeOf(tx) # "notClassified"
              /\ (ParseAssetTransaction(tx).Transaction.InputType = 0)
                     <=> (ShapeOf(tx) = "native")
    /\ StoreReturnedNil =>
          \A tx \in StoredTxs :
              ShapeOf(tx) = "notClassified" => IndexedUnder(db, tx, 1) = {}

\* the participants of a classified transaction: the source and the
\* destination of a native transfer, the source and the destinations of the
\* transfers of a send-many, the source and the new owner of an asset
\* transfer
ParticipantsOf(tx) ==
    LET f == TxFields(tx) IN
    CASE ShapeOf(tx) = "native" -> {f.SourceId, f.DestId}
      [] ShapeOf(tx) = "sendMany" ->
            {f.SourceId} \cup
                (IF LittleEndianInt(SubSeq(f.Input, 33, 40)) # 0
                 THEN {FromPubKey(SubSeq(f.Input, 1, 32))} ELSE {})
      [] ShapeOf(tx) = "assetTransfer" -> {f.SourceId, FromPubKey(SubSeq(f.Input, 33, 64))}

\* the asset id of a classified transaction: the issuer text followed by the
\* asset name text; the native currency for a transfer and a send-many
AssetIdOf(tx) ==
    IF ShapeOf(tx) = "assetTransfer"
    THEN <<FromPubKey(SubSeq(TxFields(tx).Input, 1, 32))>>
             \o BytesToString(TrimZeros(SubSeq(TxFields(tx).Input, 65, 72)))
    ELSE <<"0", "0">>

\* C15: a payload that fails to decode never makes the building of the asset
\* index fail; once the tick is stored, the transaction of that payload is in
\* no list and every classified transaction of the tick is in the list of
\* each of its participants.
C15_DecodeFailureNotFatal ==
    /\ pc = "returned" => run.err.at # "removing non transactions with asset payload"
    /\ StoreReturnedNil =>
          \A tx \in StoredTxs :
              /\ (ShapeOf(tx) \in {"sendMany", "assetTransfer"} /\ ~PayloadDecodes(tx))
                     => IndexedUnder(db, tx, 1) = {}
              /\ (ShapeOf(tx) # "notClassified" /\ PayloadDecodes(tx))
                     => /\ IndexedUnder(db, tx, 1) # {}
                        /\ \A p \in ParticipantsOf(tx) :
                               <<p, AssetIdOf(tx)>> \in IndexedUnder(db, tx, 1)

\* a tick of an asset transfer whose payload is cut short and of a send-many
\* that decodes is stored: the send-many is indexed
C15_Witness ==
    /\ StoreReturnedNil
    /\ \E tx \in StoredTxs : ShapeOf(tx) = "assetTransfer" /\ ~PayloadDecodes(tx)
    /\ \E tx \in StoredTxs :
          /\ ShapeOf(tx) = "sendMany"
          /\ PayloadDecodes(tx)
          /\ IndexedUnder(db, tx, 1) # {}

\* the transactions of the transfer record of identity I in tick T
TransferRecordTxs(d, I, T) ==
    IF d.transfers[<<I, T>>] = <<>> THEN {}
    ELSE Range(d.transfers[<<I, T>>][1].Transactions)

\* C16: once the tick is stored, every transaction with an amount above 0 is
\* in the transfer record of its source and in the one of its destination.
C16_TransfersIndexed ==
    StoreReturnedNil =>
        \A tx \in StoredTxs :
            TxFields(tx).Amount > 0 =>
                \A I \in {TxFields(tx).SourceId, TxFields(tx).DestId} :
                    /\ db.transfers[<<I, 1>>] # <<>>
                    /\ tx \in TransferRecordTxs(db, I, 1)

\* a stored tick with a transfer of 100 between two identities and a
\* transaction without amount
C16_Witness ==
    /\ StoreReturnedNil
    /\ \E tx \in StoredTxs :
          /\ TxFields(tx).Amount > 0
          /\ TxFields(tx).SourceId # TxFields(tx).DestId
          /\ tx \in TransferRecordTxs(db, TxFields(tx).DestId, 1)
    /\ \E tx \in StoredTxs : TxFields(tx).Amount = 0

\* C17: once the tick is stored, the id of every classified transaction is in
\* the list of (p, A) for each of its participants p and its asset id A, and
\* in no other list.
C17_AssetIndexExact ==
    StoreReturnedNil =>
        \A tx \in StoredTxs :
            IsClassified(tx) =>
                IndexedUnder(db, tx, 1) = ParticipantsOf(tx) \X {AssetIdOf(tx)}

\* a stored tick with a decoded asset transfer of A to C and a native
\* transfer: the asset transfer is in the lists of A and of C for the asset
C17_Witness ==
    /\ StoreReturnedNil
    /\ \E tx \in StoredTxs :
          /\ ShapeOf(tx) = "assetTransfer"
          /\ IsClassified(tx)
          /\ IndexedUnder(db, tx, 1) = {"A", "C"} \X {<<"I", "X">>}
    /\ \E tx \in StoredTxs : ShapeOf(tx) = "native"

\* C18: once a tick whose only transaction is a native transfer with an
\* amount above 0 is stored, the transaction and the transfer records of its
\* source and of its destination are written and no list of the per-asset
\* index is.
C18_NativeLeavesAssetIndex ==
    (/\ StoreReturnedNil
     /\ Len(tvOut.txs) = 1
     /\ ShapeOf(tvOut.txs[1]) = "native"
     /\ TxFields(tvOut.txs[1]).Amount > 0)
        => /\ tvOut.txs[1] \in db.tickTx
           /\ db.transfers[<<TxFields(tvOut.txs[1]).SourceId, 1>>] # <<>>
           /\ db.transfers[<<TxFields(tvOut.txs[1]).DestId, 1>>] # <<>>
           /\ db.assets = EmptyStore.assets

----------------------------------------------------------------------------
(* Claims about the decoding of the asset-transfer input                    *)

\* the number whose 8 little-endian bytes are the given ones
UnitsOf(bytes) ==
    CHOOSE v \in UnitValues : PutLittleEndian(v, 8) = bytes

\* C19: an input of fewer than 80 bytes fails to decode; of a longer one,
\* the issuer is bytes 0..31, the new owner bytes 32..63, the asset name the
\* little-endian u64 of bytes 64..71 and the units the little-endian i64 of
\* bytes 72..79, and the asset name text is the 8 bytes of the asset name
\* without their trailing zero bytes, leading and interior bytes kept.
C19_DecodeLayout ==
    decOut.done =>
        IF Len(decIn) < 80 THEN decOut.err # "nil"
        ELSE /\ decOut.err = "nil"
             /\ decOut.input.Issuer = SubSeq(decIn, 1, 32)
             /\ decOut.input.NewOwnerAndPossessor = SubSeq(decIn, 33, 64)
             /\ decOut.input.AssetName = SubSeq(decIn, 65, 72)
             /\ decOut.input.NumberOfUnits = UnitsOf(SubSeq(decIn, 73, 80))
             /\ decOut.payload.Amount = UnitsOf(SubSeq(decIn, 73, 80))
             /\ decOut.payload.AssetName =
                    BytesToString(TrimRightZeros(SubSeq(decIn, 65, 72)))

\* C19 but for the zero bytes before the name: they are removed as well
C19_DecodeLayoutBothEnds ==
    decOut.done =>
        IF Len(decIn) < 80 THEN decOut.err # "nil"
        ELSE /\ decOut.err = "nil"
             /\ decOut.input.Issuer = SubSeq(decIn, 1, 32)
             /\ decOut.input.NewOwnerAndPossessor = SubSeq(decIn, 33, 64)
             /\ decOut.input.AssetName = SubSeq(decIn, 65, 72)
             /\ decOut.input.NumberOfUnits = UnitsOf(SubSeq(decIn, 73, 80))
             /\ decOut.payload.Amount = UnitsOf(SubSeq(decIn, 73, 80))
             /\ decOut.payload.AssetName =
                    BytesToString(TrimLeftZeros(TrimRightZeros(SubSeq(decIn, 65, 72))))

----------------------------------------------------------------------------
(* Claims about the processed-tick bookkeeping                              *)

\* the intervals are well formed, ascend and do not overlap
IntervalsAscend(ptie) ==
    /\ \A i \in 1..Len(ptie) : ptie[i].InitialProcessedTick <= ptie[i].LastProcessedTick
    /\ \A i \in 1..Len(ptie) - 1 :
          ptie[i].LastProcessedTick < ptie[i + 1].InitialProcessedTick

\* C20: in every state of the store, the processed-tick intervals of an
\* epoch are well formed, ascend and do not overlap, and the last processed
\* tick of the epoch is the end of the last interval.
C20_IntervalsTrackLastTick ==
    \A epoch \in Epochs :
        LET ptie == db.processedTickIntervals[epoch] IN
        /\ IntervalsAscend(ptie)
        /\ IF Len(ptie) = 0
           THEN db.lastProcessedTickPerEpoch[epoch] = 0
           ELSE db.lastProcessedTickPerEpoch[epoch] = ptie[Len(ptie)].LastProcessedTick

\* the part of C20 about the intervals alone
C20_IntervalsAscend ==
    \A epoch \in Epochs : IntervalsAscend(db.processedTickIntervals[epoch])

----------------------------------------------------------------------------
(* Claims about the last processed tick                                     *)

\* C21: GetLastProcessedTick called after SetLastProcessedTick({tick,
\* epoch}) returns the tick and the epoch that were written.
C21_ReadsBackWhatWasWritten ==
    lptKv.ret.done =>
        /\ lptKv.ret.err = "nil"
        /\ lptKv.ret.TickNumber = PutLittleEndian(lptKv.arg.TickNumber, 4)
        /\ lptKv.ret.Epoch = lptKv.arg.Epoch

\* C21 for the records whose marshalled form is not 8 bytes long
C21_ReadsBackUnlessEightBytes ==
    (lptKv.ret.done /\ Len(lptKv.value) # 8) =>
        /\ lptKv.ret.err = "nil"
        /\ lptKv.ret.TickNumber = PutLittleEndian(lptKv.arg.TickNumber, 4)
        /\ lptKv.ret.Epoch = lptKv.arg.Epoch

----------------------------------------------------------------------------
(* PerformMigrations *)

\* the version the key holds, 0 when the key is absent
PersistedVersion(bytes) == IF bytes = <<>> THEN 0 ELSE LittleEndianUint(bytes)

InMigrationRun == mig.pc \in {"loop", "setVersion", "returned"}

\* C22: PerformMigrations reads the persisted version, 0 when it is absent,
\* and invokes the registered migration i, counted from 1, exactly when i is
\* greater than that version, in ascending order; it persists i as the new
\* version after migration i succeeded and before migration i + 1 starts.
C22_MigrationsAboveVersionInOrder ==
    LET from == PersistedVersion(mig.atStart)
        n == Len(mig.invoked)
    IN  InMigrationRun =>
          /\ \A k \in 1..n : mig.invoked[k] = from + k
          /\ (mig.pc = "loop" /\ n > 0) => PersistedVersion(mig.version) = mig.invoked[n]
          /\ (mig.pc = "loop") =>
                \A i \in 1..mig.idx : i > from => \E k \in 1..n : mig.invoked[k] = i
          /\ (mig.pc = "returned" /\ mig.err = "nil") =>
                /\ \A i \in 1..NumMigrations : i > from => \E k \in 1..n : mig.invoked[k] = i
                /\ n > 0 => PersistedVersion(mig.version) = mig.invoked[n]

\* a startup that found version 1, ran migration 2 alone and returned nil
C22_Witness ==
    /\ mig.pc = "returned"
    /\ mig.err = "nil"
    /\ PersistedVersion(mig.atStart) = 1
    /\ mig.invoked = <<2>>
    /\ PersistedVersion(mig.version) = 2

\* C23: over any sequence of startups, with migrations that fail and
\* processes that stop between a migration and the write of its version, the
\* persisted version never decreases, and a migration whose version has been
\* persisted is never invoked again.
C23_VersionNeverDecreases ==
    [][/\ PersistedVersion(mig'.version) >= PersistedVersion(mig.version)
       /\ Len(mig'.invoked) > Len(mig.invoked) =>
            mig'.invoked[Len(mig'.invoked)] \notin mig.persisted]_vars

\* the third startup, after a process that stopped between migration 1 and
\* the write of its version, and a second one whose migration 2 failed
C23_Witness ==
    /\ mig.startups = MaxStartups
    /\ mig.persisted = {1, 2}
    /\ mig.pc = "returned"
    /\ mig.err = "nil"
    /\ mig.invoked = <<2>>

\* C24: when migration i returns an error, PerformMigrations returns an
\* error, the persisted version stays at the last migration that completed
\* (i - 1, or the value found at the start), and no migration above i is
\* invoked in that run.
C24_FailedMigrationStopsRun ==
    \A i \in mig.failed :
        LET n == Len(mig.invoked) IN
        /\ mig.pc \in {"returned", "stopped"}
        /\ mig.err # "nil"
        /\ mig.invoked[n] = i
        /\ PersistedVersion(mig.version) =
              IF n > 1 THEN i - 1 ELSE PersistedVersion(mig.atStart)

\* migration 1 completed and migration 2 failed in the same run
C24_Witness ==
    /\ mig.pc = "returned"
    /\ mig.failed = {2}
    /\ mig.invoked = <<1, 2>>
    /\ PersistedVersion(mig.version) = 1

----------------------------------------------------------------------------
(* AssetTransferMigration *)

\* the keys of the store outside the prefix QxIdentityAssetTransfers
OutsideAssetIndex(d) == [d EXCEPT !.assets = NoAssetIndex]

\* the ticks the migration is to index: those from the first stored tick to
\* the last processed tick that have tick data
TicksToIndex(d) ==
    {t \in Ticks : /\ d.tickData[t] # <<>>
                   /\ t <= d.lastProcessedTick.TickNumber}

\* the value the asset path of the indexer puts under a key of tick t
IndexedValue(d, identity, assetId, t) ==
    LET list == QxAssetTransfersPerKey(GetTickTransactions(d, t).txs)[<<identity, assetId>>]
    IN  IF list = <<>> THEN <<>> ELSE <<list>>

\* the index of a run that went through every tick
RebuiltIndex(d) ==
    [k \in Identities \X AssetIds \X Ticks |->
        IF k[3] \in TicksToIndex(d) THEN IndexedValue(d, k[1], k[2], k[3]) ELSE <<>>]

AtmReturnedNil == atm.pc = "returned" /\ atm.err = "nil"

C26_EveryProcessedTickIndexed ==
    AtmReturnedNil =>
        \A t \in TicksToIndex(db), identity \in Identities, assetId \in AssetIds :
            db.assets[<<identity, assetId, t>>] = IndexedValue(db, identity, assetId, t)

\* the same, of the runs in which no read of a tick failed
C26_EveryTickReadIndexed ==
    AtmReturnedNil =>
        \A t \in TicksToIndex(db) \ atm.skipped, identity \in Identities, assetId \in AssetIds :
            db.assets[<<identity, assetId, t>>] = IndexedValue(db, identity, assetId, t)

----------------------------------------------------------------------------
(* Replay of the store steps *)

\* the store steps under way are those of a tick already reported processed
Replaying == pc # "idle" /\ run.tick \in proc.processed

\* C27: when the store steps of a tick that was processed are made again
\* with the same inputs (tx.Store with the same tick number and
\* transactions, then SetLastProcessedTick with the same tick and epoch),
\* no step changes the store: it stays byte for byte what the first
\* processing left.
C27_ReplayLeavesStoreUnchanged == [][Replaying => db' = db]_vars

\* the replay of a tick with a transfer and an asset index entry has gone
\* through tx.Store and the batch of SetLastProcessedTick
C27_Witness ==
    /\ Replaying
    /\ pc = "setLastProcessedTick"
    /\ \E k \in DOMAIN db.transfers : db.transfers[k] # <<>>
    /\ \E k \in DOMAIN db.assets : db.assets[k] # <<>>
    /\ db.tickTx # {}

----------------------------------------------------------------------------
(* ValidateTick: the empty tick and the quorum that does not validate *)

\* ValidateTick returned nil for a tick whose quorum votes carry the
\* all-zero transaction digest
EmptyTickReportedValid == pc = "returned" /\ run.err = Nil /\ run.emptyTxDigest

\* C28: when the quorum agrees on an all-zero txDigest for tick T, the
\* processing of T reports success, has written TickData|T with an empty
\* list of digests, and has written no TickTx record.
C28_EmptyTickWritesEmptyTickData ==
    /\ (pc = "returned" /\ run.emptyTxDigest /\ run.quorumValidated) => run.err = Nil
    /\ EmptyTickReportedValid =>
          /\ db.tickData[run.tick] = <<TickDataToProto(run.tick, <<>>)>>
          /\ TickRecords(db, run.tick).tickTx = {}

\* the same without the tick data record: success and no TickTx record
C28_EmptyTickWritesNoTransactions ==
    /\ (pc = "returned" /\ run.emptyTxDigest /\ run.quorumValidated) => run.err = Nil
    /\ EmptyTickReportedValid => TickRecords(db, run.tick).tickTx = {}

\* the votes of the run under way do not pass quorum.Validate
RunFailsQuorum ==
    /\ pc \in {"computors", "validate"}
    /\ proc.votes # <<>>
    /\ ~proc.votes[1].valid

\* C29: when quorum validation fails for tick T, the processing of T returns
\* an error and no step of that run has written to the store: no record of
\* any prefix is created or changed, the last processed tick included.
C29_QuorumFailureWritesNothing ==
    [][RunFailsQuorum =>
          /\ db' = db
          /\ (pc = "validate" /\ pc' # pc) =>
                (pc' = "returned" /\ run'.err = ValidationError("validating quorum"))]_vars

\* the same of the runs that find the computors of the epoch in the store
C29_QuorumFailureWritesNothingButComputors ==
    [][RunFailsQuorum =>
          /\ [db' EXCEPT !.computors = {}] = [db EXCEPT !.computors = {}]
          /\ (pc = "validate" /\ pc' # pc) =>
                (pc' = "returned" /\ run'.err = ValidationError("validating quorum"))]_vars

----------------------------------------------------------------------------
(* The query facade *)

\* the key the request reads is absent from the store, and the read itself
\* did not fail
StoreNotFound(r) ==
    /\ r.fault # "read error"
    /\ IF r.op = "GetLastProcessedTick" THEN r.stored = {} ELSE r.number \notin r.stored

\* the status the mapping of the facade gives to the request
MappedStatus(r) ==
    IF ~r.decodes THEN "InvalidArgument"
    ELSE IF StoreNotFound(r) THEN "NotFound"
    ELSE IF r.fault # "none" THEN "Internal"
    ELSE "OK"

\* C30: every operation of the query facade (GetTickData,
\* GetTickTransactions, GetTransaction, GetQuorumTickData, GetComputors,
\* GetLastProcessedTick) answers a not-found of the store with the status
\* NotFound, an argument that does not decode with InvalidArgument, and
\* every other error with Internal.
C30_ErrorsMapped == rpc.done => rpc.code = MappedStatus(rpc)

\* the same of the operations other than GetLastProcessedTick
C30_ErrorsMappedButLastProcessedTick ==
    (rpc.done /\ rpc.op # "GetLastProcessedTick") => rpc.code = MappedStatus(rpc)

----------------------------------------------------------------------------
(* The interval a tick is put in *)

\* SetLastProcessedTick writes the intervals of the epoch of its tick
IntervalsWritten ==
    /\ pc = "setLastProcessedTick"
    /\ db'.processedTickIntervals # db.processedTickIntervals

\* C31: when the last processed tick is advanced to tick t of epoch e, a new
\* interval [t, t] is started in ProcessedTickIntervals|e whenever e has no
\* interval yet or t is not the previous last processed tick + 1; the upper
\* bound of the current interval is extended only when t = previousLast + 1
\* in the same epoch.
C31_GapStartsNewInterval ==
    [][IntervalsWritten =>
          LET ptie == db.processedTickIntervals[run.epoch]
              written == db'.processedTickIntervals[run.epoch]
              t == run.tick
          IN  IF Len(ptie) = 0 \/ t # run.previousLast + 1
              THEN written = Append(ptie, [InitialProcessedTick |-> t, LastProcessedTick |-> t])
              ELSE written = [ptie EXCEPT ![Len(ptie)].LastProcessedTick = t]]_vars

\* the same of the ticks that follow the previous last processed tick and
\* of the first tick of an epoch
C31_NextTickExtendsInterval ==
    [][(IntervalsWritten
            /\ (Len(db.processedTickIntervals[run.epoch]) = 0 \/ run.tick = run.previousLast + 1)) =>
          LET ptie == db.processedTickIntervals[run.epoch]
              written == db'.processedTickIntervals[run.epoch]
              t == run.tick
          IN  IF Len(ptie) = 0
              THEN written = Append(ptie, [InitialProcessedTick |-> t, LastProcessedTick |-> t])
              ELSE written = [ptie EXCEPT ![Len(ptie)].LastProcessedTick = t]]_vars

----------------------------------------------------------------------------
(***************************************************************************)
(* The vote ValidateTick reads the txDigest from                           *)
(***************************************************************************)

QuorumOfRunValidated == vt.pc \in {"tickData", "transactions", "returned"} /\ vt.quorumValidated

\* C32: once the quorum of a tick is validated, the txDigest that decides
\* the empty-tick shortcut and that the tick body is validated against is
\* the digest of the dominant group of the fetched votes, wherever the votes
\* of that group stand in the list.
C32_DigestOfDominantGroup ==
    QuorumOfRunValidated =>
        /\ vt.usedDigest \in DominantDigests(vt.votes)
        /\ vt.shortcut <=> EmptyTxDigest \in DominantDigests(vt.votes)
        /\ vt.tickValidated => vt.tickDigest \in DominantDigests(vt.votes)

\* the same of the runs whose first fetched vote is of the dominant group
C32_DigestOfDominantGroupWhenFirst ==
    (QuorumOfRunValidated /\ vt.votes[1] \in DominantDigests(vt.votes)) =>
        /\ vt.usedDigest \in DominantDigests(vt.votes)
        /\ vt.shortcut <=> EmptyTxDigest \in DominantDigests(vt.votes)
        /\ vt.tickValidated => vt.tickDigest \in DominantDigests(vt.votes)

----------------------------------------------------------------------------
(***************************************************************************)
(* The context of the caller of ValidateTick                               *)
(***************************************************************************)

\* C36: after the context passed to ValidateTick is done (cancelled, or its
\* deadline passed), no fetch, validation or store step of the tick is
\* started.
C36_CallerContextAbortsTick == ~vt.startedWhenDone

\* the fetches from the node are not made once the five seconds of the
\* context of the run have passed
C36_RunDeadlineAbortsFetches ==
    [][(vt.expired /\ vt.pc \in {"getQuorumVotes", "tickData", "transactions"} /\ vt'.pc # vt.pc)
          => (vt'.pc = "returned" /\ vt'.err # "nil")]_vars

----------------------------------------------------------------------------
(***************************************************************************)
(* The writes of the computor list of an epoch                             *)
(***************************************************************************)

\* C40: over the ticks processed within one epoch the record of the computor
\* list of the epoch is written once, on the first tick that finds no stored
\* list; a tick that reads the stored list writes nothing to the record.
C40_ComputorsWrittenOnce ==
    /\ vt.writes <= 1
    /\ vt.foundStored => ~vt.wroteThisTick

\* a tick that finds no stored list and passes the validation of the list
\* writes the record
C40_FirstSightingWritesComputors ==
    (vt.pc \in {"quorum", "tickData", "transactions"} /\ ~vt.foundStored) => vt.wroteThisTick

----------------------------------------------------------------------------
(***************************************************************************)
(* The not-found of the read accessors                                     *)
(***************************************************************************)

\* the engine reported absent the key, or one of the keys, that the call read
EngineReportedAbsent ==
    /\ acc.done
    /\ \/ acc.engine = "pebble.ErrNotFound"
       \/ acc.accessor \in TickAccessors /\ acc.engine = "found" /\ acc.second = "pebble.ErrNotFound"

\* C39: a read accessor of the store returns the ErrNotFound of the store,
\* never the not-found error of the engine, when the engine reports the key
\* absent.
C39_NotFoundIsTranslated == EngineReportedAbsent => acc.err = "ErrNotFound"

\* the same of every accessor but GetEmptyTicksForEpoch
C39_NotFoundIsTranslatedButEmptyTicks ==
    (EngineReportedAbsent /\ acc.accessor # "GetEmptyTicksForEpoch") => acc.err = "ErrNotFound"

----------------------------------------------------------------------------
(***************************************************************************)
(* The order, the amounts and the repetitions of the entries of the        *)
(* identity indexes                                                        *)
(***************************************************************************)

\* the first slot of the tick body that holds the digest
SlotOf(digest) ==
    CHOOSE k \in 1..Len(tvIn.digests) :
        /\ tvIn.digests[k] = digest
        /\ \A j \in 1..(k - 1) : tvIn.digests[j] # digest

InSlotOrder(digestList) ==
    \A i, j \in 1..Len(digestList) : i < j => SlotOf(digestList[i]) <= SlotOf(digestList[j])

\* the position of the first occurrence of the digest among the transactions
\* the node returned
ReturnedAt(digest) ==
    CHOOSE k \in 1..Len(tvIn.transactions) :
        /\ getDigestFromTransaction(tvIn.transactions[k]) = digest
        /\ \A j \in 1..(k - 1) : getDigestFromTransaction(tvIn.transactions[j]) # digest

InReturnedOrder(digestList) ==
    \A i, j \in 1..Len(digestList) : i < j => ReturnedAt(digestList[i]) <= ReturnedAt(digestList[j])

\* the digests of the entries of the records of the two identity indexes
TransferRecordDigests(k) ==
    [i \in 1..Len(db.transfers[k][1].Transactions) |->
        getDigestFromTransaction(db.transfers[k][1].Transactions[i])]

AssetRecordDigests(k) == [i \in 1..Len(db.assets[k][1]) |-> db.assets[k][1][i].id]

\* C33: the entries of every record of the transfer index and of every list
\* of the asset index stand in the order of the digest list of the tick body,
\* whatever the order in which the node returned the transactions (the
\* reverse reader then yields them in the reverse of that order).
C33_EntriesInTickBodyOrder ==
    /\ \A k \in DOMAIN db.transfers :
          db.transfers[k] # <<>> => InSlotOrder(TransferRecordDigests(k))
    /\ \A k \in DOMAIN db.assets :
          db.assets[k] # <<>> => InSlotOrder(AssetRecordDigests(k))

\* the entries stand in the order in which the node returned the transactions
C33_EntriesInReturnedOrder ==
    /\ \A k \in DOMAIN db.transfers :
          db.transfers[k] # <<>> => InReturnedOrder(TransferRecordDigests(k))
    /\ \A k \in DOMAIN db.assets :
          db.assets[k] # <<>> => InReturnedOrder(AssetRecordDigests(k))

\* GetTickTransferTransactions leaves out the transactions of an amount <= 0
KeptByGetTickTransferTransactions(tx) == ~(TxFields(tx).Amount <= 0)

\* storeTransferTransactions has put the record of every identity of its map
TransferRecordsWritten == pc = "storeTransferTransactions" /\ run.pending = {}

\* C34: no transaction whose amount is zero or negative is in a record of
\* the transfer index, and the filter of the writer keeps a transaction
\* exactly when the filter of GetTickTransferTransactions keeps it.
C34_OnlyPositiveAmountsIndexed ==
    /\ \A k \in DOMAIN db.transfers :
          db.transfers[k] # <<>> =>
              \A i \in 1..Len(db.transfers[k][1].Transactions) :
                  TxFields(db.transfers[k][1].Transactions[i]).Amount > 0
    /\ TransferRecordsWritten =>
          \A i \in 1..Len(run.validTxs) :
              (\E k \in DOMAIN db.transfers :
                  /\ db.transfers[k] # <<>>
                  /\ run.validTxs[i] \in Range(db.transfers[k][1].Transactions))
                  <=> KeptByGetTickTransferTransactions(run.validTxs[i])

\* no transaction of amount zero is in a record of the transfer index
C34_ZeroAmountNeverIndexed ==
    \A k \in DOMAIN db.transfers :
        db.transfers[k] # <<>> =>
            \A i \in 1..Len(db.transfers[k][1].Transactions) :
                TxFields(db.transfers[k][1].Transactions[i]).Amount # 0

\* C35: a transaction of the tick is at most once in a record of the
\* transfer index, and a transaction id at most once in a list of the asset
\* index, also when the source of the transaction is its destination.
C35_EntriesAtMostOnce ==
    /\ \A k \in DOMAIN db.transfers :
          db.transfers[k] # <<>> => IsInjective(db.transfers[k][1].Transactions)
    /\ \A k \in DOMAIN db.assets :
          db.assets[k] # <<>> => IsInjective(db.assets[k][1])

\* the same of the asset index, for a tick whose transactions are distinct
C35_AssetIdsAtMostOnce ==
    IsInjective(tvOut.txs) =>
        \A k \in DOMAIN db.assets :
            db.assets[k] # <<>> => IsInjective(db.assets[k][1])

\* the same of the transfer index, for the transactions whose source is not
\* their destination
C35_TransfersAtMostOnceUnlessSelf ==
    (/\ IsInjective(tvOut.txs)
     /\ \A i \in 1..Len(tvOut.txs) : TxFields(tvOut.txs[i]).SourceId # TxFields(tvOut.txs[i]).DestId) =>
        \A k \in DOMAIN db.transfers :
            db.transfers[k] # <<>> => IsInjective(db.transfers[k][1].Transactions)

----------------------------------------------------------------------------
(***************************************************************************)
(* The clean-up step of every startup                                      *)
(***************************************************************************)

StartingUp == mig.pc = "stopped" /\ mig'.pc # "stopped"

CleanupFailed == mig.pc = "returned" /\ mig.err = "deleting unused data"

\* what the store holds outside the prefix of the quorum data
OutsideQuorumData(m) == <<m.version, m.applied, m.persisted>>

\* C37: every startup runs the clean-up step before it reads the version and
\* before any numbered migration, pending or not: past it the store holds no
\* key of the quorum data prefix and every other key as before; when the
\* step fails no numbered migration is run and the version is unchanged.
C37_CleanupFirstOnEveryStartup ==
    [][/\ StartingUp =>
            /\ OutsideQuorumData(mig') = OutsideQuorumData(mig)
            /\ mig'.invoked = <<>>
            /\ mig'.err # "deleting unused data" => ~mig'.quorumData
       /\ mig'.pc \in {"loop", "setVersion"} => ~mig'.quorumData
       /\ (mig'.pc # "stopped" /\ mig'.invoked # <<>>) => ~mig'.quorumData
       /\ CleanupFailed' => (mig'.invoked = <<>> /\ mig'.version = mig'.atStart)]_vars

\* a startup with no migration pending has removed the quorum data the store held
C37_Witness ==
    /\ mig.startups >= 2
    /\ mig.pc = "returned"
    /\ mig.err = "nil"
    /\ mig.invoked = <<>>
    /\ mig.hadQuorumData
    /\ ~mig.quorumData

----------------------------------------------------------------------------
(***************************************************************************)
(* The migrations on a store that has processed no tick                    *)
(***************************************************************************)

\* no last processed tick, no tick data
NoTickProcessed ==
    /\ db.lastProcessedTick.TickNumber = 0
    /\ \A t \in Ticks : db.tickData[t] = <<>>

\* C38: on a store that has processed no tick yet and holds no migration
\* version, PerformMigrations returns nil and leaves the version of the
\* last registered migration under the version key.
C38_FreshStoreMigrates ==
    (NoTickProcessed /\ atm.pc = "returned") =>
        /\ atm.err = "nil"
        /\ VersionAfterPerformMigrations(atm.err) = PutLittleEndian(1, MigrationVersionSize)

\* on such a store the asset transfer migration returns an error and the
\* version key stays absent
C38_FreshStoreMigrationFails ==
    (NoTickProcessed /\ atm.pc = "returned") =>
        /\ atm.err \in {"deleting asset transfers", "getting last processed tick"}
        /\ VersionAfterPerformMigrations(atm.err) = <<>>

============================================================================
